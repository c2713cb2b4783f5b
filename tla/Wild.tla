-------------------------------- MODULE Wild --------------------------------
(***************************************************************************)
(* The search patterns of the catalog functions (utils.c): wildcomp        *)
(* compiles a pattern to nodes, wildexec runs a name through them.  A text *)
(* is a sequence of characters; of the characters only %, _ and the escape *)
(* are told apart by the code.  Like is what ODBC means by a pattern.      *)
(***************************************************************************)
EXTENDS Naturals, Sequences, SequencesExt

Specific(chars) == [match |-> "specific", base |-> chars, nr |-> Len(chars)]
All             == [match |-> "all", base |-> <<>>, nr |-> 0]
One             == [match |-> "one", base |-> <<>>, nr |-> 1]

_wild_append(c, node) == [c EXCEPT !.nodes = Append(@, node)]
\* the characters from s to p become a node of their own
Flush(c) == IF c.lit = <<>> THEN c ELSE [_wild_append(c, Specific(c.lit)) EXCEPT !.lit = <<>>]

Escaped(c, ch) == [_wild_append(c, Specific(<<ch>>)) EXCEPT !.prev = "none", !.escaping = FALSE]

\* one character of the pattern
Compile(c, ch) ==
  CASE ch = "\\" -> [Flush(c) EXCEPT !.bad = @ \/ c.escaping, !.escaping = TRUE]
    [] ch \in {"%", "_"} /\ c.escaping -> Escaped(c, ch)
    [] ch = "%" /\ ~c.escaping ->
         IF c.prev = "all" THEN c ELSE [_wild_append(Flush(c), All) EXCEPT !.prev = "all"]
    [] ch = "_" /\ ~c.escaping ->
         IF c.prev = "one" THEN [c EXCEPT !.nodes[Len(c.nodes)].nr = @ + 1]
         ELSE [_wild_append(Flush(c), One) EXCEPT !.prev = "one"]
    [] OTHER -> [c EXCEPT !.bad = @ \/ c.escaping, !.lit = Append(@, ch), !.prev = "none"]

\* an escape at the very end is accepted and stands for nothing
_wild_comp(ex) ==
  LET start == [nodes |-> <<>>, prev |-> "none", escaping |-> FALSE, lit |-> <<>>, bad |-> FALSE]
  IN  Flush(FoldLeft(Compile, start, ex))

wildcomp_fails(ex) == _wild_comp(ex).bad

(***************************************************************************)
(* The places of a name (0 before its first character) from which a node   *)
(* and those behind it match the rest; `after` are those of the next node. *)
(***************************************************************************)
_wild_match_all(last, after, n) == {s \in 0..n : last \/ \E p \in s..n - 1 : p \in after}

\* Mutant: `_` repeated is one `_`.
_wild_match_one_Single(node, last, after, n) ==
  {s \in 0..n - 1 : IF last THEN s + 1 = n ELSE s + 1 \in after}

_wild_match_one(node, last, after, n) ==
  {s \in 0..n - 1 : /\ s + node.nr <= n
                    /\ IF last THEN s + node.nr = n ELSE s + node.nr \in after}

\* a last node of plain characters does not look whether the name ends there
_wild_match_specific(node, last, after, str) ==
  {s \in 0..Len(str) : /\ s + node.nr <= Len(str)
                       /\ SubSeq(str, s + 1, s + node.nr) = node.base
                       /\ last \/ s + node.nr \in after}

_wild_match(node, last, after, str) ==
  CASE node.match = "all"      -> _wild_match_all(last, after, Len(str))
    [] node.match = "one"      -> _wild_match_one(node, last, after, Len(str))
    [] node.match = "specific" -> _wild_match_specific(node, last, after, str)

wildexec(ex, str) ==
  LET wild == _wild_comp(ex).nodes
      exec[inode \in 1..Len(wild) + 1] ==
        IF inode > Len(wild) THEN {Len(str)}
        ELSE _wild_match(wild[inode], inode = Len(wild), exec[inode + 1], str)
  IN  0 \in exec[1]

(***************************************************************************)
(* Reference: where in the name each character of the pattern may end.     *)
(***************************************************************************)
\* at: the places of str reached, after one more character of the pattern
Onward(str, c, ch) ==
  LET n == Len(str)
      same == {q \in 1..n : q - 1 \in c.at /\ str[q] = ch}
  IN  CASE c.escaped                   -> [at |-> same, escaped |-> FALSE]
        [] ch = "\\" /\ ~c.escaped    -> [c EXCEPT !.escaped = TRUE]
        [] ch = "%" /\ ~c.escaped     -> [c EXCEPT !.at = {q \in 0..n : \E p \in c.at : p <= q}]
        [] ch = "_" /\ ~c.escaped     -> [c EXCEPT !.at = {q \in 1..n : q - 1 \in c.at}]
        [] OTHER                      -> [c EXCEPT !.at = same]

Like(ex, str) ==
  LET c == FoldLeft(LAMBDA d, ch : Onward(str, d, ch), [at |-> {0}, escaped |-> FALSE], ex)
  IN  Len(str) \in c.at /\ ~c.escaped

\* The pattern ends in a wildcard (or is nothing), and not in one that is escaped.
EndsWild(ex) == ex = <<>> \/ (Last(ex) \in {"%", "_"} /\ (Len(ex) = 1 \/ ex[Len(ex) - 1] # "\\"))
=============================================================================
