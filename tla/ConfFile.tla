------------------------------ MODULE ConfFile ------------------------------
(***************************************************************************)
(* Configuration files (tflib/tf_conf_file.c).  A line is a sequence of    *)
(* tokens: "sp" for a blank or a tab, the separators, the word "group",    *)
(* and words of which only equality matters, with or without case.         *)
(* cfg_create takes the lines of tf_readlines one at a time; a lookup may  *)
(* follow any of them.                                                     *)
(***************************************************************************)
EXTENDS Integers, Sequences, FiniteSetsExt

CONSTANTS
    GroupNames, Keys, Values,   \* words
    LowerOf,                    \* the words with capitals, each with its lower case
    MaxLines                    \* bound on the lines of a file

VARIABLES
    groups,     \* cfg->groups: the copies that tf_list_push made, with their name
                \* and their pairs, a pointer to one of lists
    group,      \* the group of cfg_create to which pairs go, NoGroup for NULL
    lists,      \* the lists of pairs
    meant       \* history: what the author of the file meant by each line

cfgVars == <<groups, group, lists, meant>>

NoLine == [key |-> <<>>, value |-> <<>>]
NoGroup == [name |-> <<>>, pairs |-> 0]

CfgInit == groups = <<>> /\ group = NoGroup /\ lists = <<>> /\ meant = <<>>
-----------------------------------------------------------------------------
Lower(s) == [i \in DOMAIN s |-> IF s[i] \in DOMAIN LowerOf THEN LowerOf[s[i]] ELSE s[i]]
tf_stricmp(s, t) == Lower(s) = Lower(t)

\* The tokens that are not words.
Marks == {"sp", "=", ":", "#", "[", "]", "group"}

\* No word is a mark, in any case, and the writings of true and yes among the
\* values are those in one case.
ASSUME WordsAssumption ==
    /\ (GroupNames \cup Keys \cup Values) \cap Marks = {}
    /\ \A w \in DOMAIN LowerOf : w \notin Marks /\ LowerOf[w] \notin Marks
    /\ \A v \in Values : (\E word \in {"true", "yes"} : tf_stricmp(<<v>>, <<word>>))
                         <=> v \in {"true", "yes", "TRUE", "YES"}

\* The position of the first token of s in S, or not in S, from n on; one
\* past the end if there is none.
FirstIn(s, S, n) == Min({i \in n..Len(s) : s[i] \in S} \cup {Len(s) + 1})
FirstNotIn(s, S, n) == Min({i \in n..Len(s) : s[i] \notin S} \cup {Len(s) + 1})

tf_strtrim(s) ==
    LET last == Max({i \in DOMAIN s : s[i] # "sp"} \cup {0})
    IN  SubSeq(s, FirstNotIn(s, {"sp"}, 1), last)

\* The name of a group: as many tokens are skipped at the front as there are
\* separators anywhere.  (The code skips characters: of a word of several it
\* may leave an end in front of what is left here.)
HeaderOf(s, seps) ==
    [key |-> SubSeq(s, Cardinality({i \in DOMAIN s : s[i] \in seps}) + 1, Len(s)), value |-> <<>>]

\* A key up to the first separator, a value from the first other token on.
PairOf(s) ==
    LET seps  == {"sp", "=", ":"}
        stop  == FirstIn(s, seps, 1)
        start == FirstNotIn(s, seps, stop)
    IN  IF start > Len(s) THEN NoLine
        ELSE [key |-> SubSeq(s, 1, stop - 1), value |-> SubSeq(s, start, Len(s))]

\* Mutant of parse_line: the comment after a pair is not cut off.
ParseKeepsComment(str) ==
    LET ptr == tf_strtrim(str)
    IN  IF ptr = <<>> THEN NoLine
        ELSE CASE ptr[1] = "#" -> NoLine
               [] ptr[1] = "group" -> HeaderOf(Tail(ptr), {"sp", "="})
               [] ptr[1] = "[" -> HeaderOf(SubSeq(ptr, 2, FirstIn(ptr, {"]"}, 2) - 1), {"sp"})
               [] OTHER -> PairOf(ptr)

\* A header has an empty value; NoLine is NULL.
parse_line(str) ==
    LET ptr == tf_strtrim(str)
    IN  IF ptr = <<>> THEN NoLine
        ELSE CASE ptr[1] = "#" -> NoLine
               [] ptr[1] = "group" -> HeaderOf(Tail(ptr), {"sp", "="})
               [] ptr[1] = "[" -> HeaderOf(SubSeq(ptr, 2, FirstIn(ptr, {"]"}, 2) - 1), {"sp"})
               [] OTHER -> PairOf(SubSeq(ptr, 1, FirstIn(ptr, {"#"}, 1) - 1))

\* The first match; NoGroup if there is none.
cfg_find_group(name) ==
    LET found == {i \in DOMAIN groups : tf_stricmp(groups[i].name, name)}
    IN  IF found = {} THEN NoGroup ELSE groups[Min(found)]

\* One iteration of cfg_create.
ReadLine(str) ==
    LET kv    == parse_line(str)
        known == cfg_find_group(kv.key)
        new   == [name |-> kv.key, pairs |-> Len(lists) + 1]
    IN  CASE kv = NoLine -> UNCHANGED <<groups, group, lists>>
          [] kv # NoLine /\ kv.value = <<>> ->
                IF known = NoGroup
                THEN group' = new /\ groups' = Append(groups, new) /\ lists' = Append(lists, <<>>)
                ELSE group' = known /\ UNCHANGED <<groups, lists>>
          [] kv.value # <<>> ->
                /\ lists' = IF group = NoGroup THEN lists
                            ELSE [lists EXCEPT ![group.pairs] = Append(@, kv)]
                /\ UNCHANGED <<groups, group>>

cfg_get_kv(g, key) ==
    LET found == IF g = NoGroup THEN {} ELSE {i \in DOMAIN lists[g.pairs] : lists[g.pairs][i].key = key}
    IN  IF found = {} THEN NoLine ELSE lists[g.pairs][Min(found)]

cfg_get_string(g, key, dft) ==
    IF cfg_get_kv(g, key) = NoLine THEN dft ELSE cfg_get_kv(g, key).value

cfg_get_bool(g, key, dft) ==
    IF cfg_get_kv(g, key) = NoLine THEN dft
    ELSE \E word \in {"true", "yes"} : tf_stricmp(cfg_get_kv(g, key).value, <<word>>)
-----------------------------------------------------------------------------
(* External: the author of the file, who means headers, pairs or nothing   *)
(* and has several ways to write each.  A flaw is a blank behind the name  *)
(* of a header, or a comment behind a blank, which the parser misreads.    *)
HeaderLine(n, f) == [kind |-> "header", name |-> n, flaw |-> f]
PairLine(k, v, f) == [kind |-> "pair", name |-> k, value |-> v, flaw |-> f]
Nothing == [kind |-> "nothing"]

HeaderFlaws == {"none", "blank", "comment"}
PairFlaws == {"none", "comment"}

Meanings == {HeaderLine(n, f) : n \in GroupNames, f \in HeaderFlaws}
            \cup {PairLine(k, v, f) : k \in Keys, v \in Values, f \in PairFlaws} \cup {Nothing}

HeaderWritings(n, f) ==
    CASE f = "none" ->
           {<<"group", "=", n>>, <<"sp", "group", "sp", "=", "sp", n, "sp">>,
            <<"[", n, "]">>, <<"sp", "[", "sp", n, "]", "sp", "#">>}
      [] f = "blank" -> {<<"[", n, "sp", "]">>}
      [] OTHER -> {<<"group", "=", n, "sp", "#">>}

PairWritings(k, v, f) ==
    IF f = "none" THEN {<<k, "=", v>>, <<"sp", k, "sp", "=", "sp", v, "sp">>,
                        <<k, ":", "sp", v, "#", k>>, <<k, "sp", v>>}
    ELSE {<<k, "sp", "=", "sp", v, "sp", "#", k>>}

Writings(m) ==
    CASE m.kind = "header" -> HeaderWritings(m.name, m.flaw)
      [] m.kind = "pair" -> PairWritings(m.name, m.value, m.flaw)
      [] OTHER -> {<<>>, <<"sp">>, <<"sp", "#", "group">>, <<"[", "sp", "]">>, <<"group", "=">>}
                  \cup {<<k, "sp", "=">> : k \in Keys} \cup {<<k, "#", "=", k>> : k \in Keys}

cfg_create ==
    /\ Len(meant) < MaxLines
    /\ \E m \in Meanings : meant' = Append(meant, m) /\ \E str \in Writings(m) : ReadLine(str)

cfg_destroy == groups' = <<>> /\ group' = NoGroup /\ lists' = <<>> /\ meant' = <<>>

CfgNext == cfg_create \/ cfg_destroy

CfgSpec == CfgInit /\ [][CfgNext]_cfgVars
-----------------------------------------------------------------------------
(* Correctness.                                                            *)

\* The line that gives key in the group n: the first such pair whose nearest
\* header above names the group, in any case and without a flaw; 0 if there
\* is none.
GivenAt(n, key) ==
    LET above(i) == {j \in 1..(i - 1) : meant[j].kind = "header"}
        gives(i) == /\ meant[i].kind = "pair" /\ meant[i].name = key
                    /\ above(i) # {}
                    /\ meant[Max(above(i))].flaw = "none"
                    /\ tf_stricmp(<<meant[Max(above(i))].name>>, <<n>>)
    IN  Min({i \in DOMAIN meant : gives(i)} \cup {Len(meant) + 1}) % (Len(meant) + 1)

\* A comment behind a blank leaves the blank in the value.
ValueRead(m) == IF m.flaw = "none" THEN <<m.value>> ELSE <<m.value, "sp">>
ReadsTrue(m) == m.flaw = "none" /\ m.value \in {"true", "yes", "TRUE", "YES"}

\* What a lookup finds is determined by what the author meant and by the two
\* flaws the parser misreads.  The parts of a group that is opened several
\* times, in any case and any of the writings, are one group, the first pair
\* of a key counts, pairs above all headers do not, and the pairs added
\* through group are found through the copy of it in the list.  A value with
\* a blank and a comment behind it keeps the blank, and so is never true; the
\* pairs below a header with a blank or a comment behind its name are found
\* under no name an author uses, and not under that of the header above it
\* (tf_conf_file.c:15-44, 52-80, 87-145, 184-213).
LookupsAgree == \A n \in GroupNames, key \in Keys :
    LET i == GivenAt(n, key)
        g == cfg_find_group(<<n>>)
    IN  /\ cfg_get_string(g, <<key>>, <<>>) = IF i = 0 THEN <<>> ELSE ValueRead(meant[i])
        /\ cfg_get_bool(g, <<key>>, TRUE) = (i = 0 \/ ReadsTrue(meant[i]))
=============================================================================
