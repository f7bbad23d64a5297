------------------------------- MODULE Orders -------------------------------
(***************************************************************************)
(* The slices of keys that Ring (internal/buffer/ring.go) and Evaluator    *)
(* (internal/triggers/four_triggers.go) keep beside their maps, and the    *)
(* loops both run over them.                                               *)
(***************************************************************************)
EXTENDS Integers, Sequences

Members(s) == {s[i] : i \in DOMAIN s}

\* The first k elements, which the eviction loops take from the front.
FirstIn(s, k) == {s[i] : i \in 1..k}

\* The elements of s that are in keep, in their order.  (A recursive function
\* and not SelectSeq, which the proof system cannot expand.)
Filter(s, keep) ==
    LET f[i \in 0..Len(s)] ==
            IF i = 0 THEN << >>
            ELSE IF s[i] \in keep THEN Append(f[i - 1], s[i]) ELSE f[i - 1]
    IN  f[Len(s)]

\* s without the first occurrence of x: the loop leaves at the one it takes out.
WithoutFirst(s, x) ==
    IF x \notin Members(s) THEN s
    ELSE LET i == CHOOSE i \in DOMAIN s : s[i] = x /\ \A j \in DOMAIN s : s[j] = x => i <= j
         IN  SubSeq(s, 1, i - 1) \o SubSeq(s, i + 1, Len(s))
=============================================================================
