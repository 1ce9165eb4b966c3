------------------------------ MODULE LineDiff ------------------------------
(***************************************************************************)
(* The lines the Monaco diff colors (EditorAssets/bridge.js lineDiffOps):  *)
(* the lines both texts start and end with are put aside, the longest      *)
(* common subsequence of what is left is found in a table, and the walk    *)
(* back through it gives the deleted and inserted lines. Too large a table *)
(* is not filled: everything left is then deleted and inserted.            *)
(*                                                                         *)
(* A text is a sequence of lines; its splitting is left out.               *)
(***************************************************************************)
EXTENDS Naturals, Sequences, FiniteSets, SequencesExt

CONSTANT MaxTable    \* 2000000 cells in the code

ASSUME MaxTableAssumption == MaxTable \in Nat

Shorter(a, b) == IF Len(a) <= Len(b) THEN Len(a) ELSE Len(b)

\* How many lines both start with, and how many of the others both end with.
CommonPrefix(a, b) ==
    CHOOSE k \in 0..Shorter(a, b) :
        /\ \A i \in 1..k : a[i] = b[i]
        /\ k < Shorter(a, b) => a[k + 1] # b[k + 1]

\* Bug: the lines both end with may be lines both start with.
CommonEnd(a, b, prefix) ==
    CHOOSE k \in 0..Shorter(a, b) :
        /\ \A i \in 0..(k - 1) : a[Len(a) - i] = b[Len(b) - i]
        /\ k < Shorter(a, b) => a[Len(a) - k] # b[Len(b) - k]

CommonSuffix(a, b, prefix) ==
    CHOOSE k \in 0..(Shorter(a, b) - prefix) :
        /\ \A i \in 0..(k - 1) : a[Len(a) - i] = b[Len(b) - i]
        /\ k < Shorter(a, b) - prefix => a[Len(a) - k] # b[Len(b) - k]

\* dp: the longest common subsequence of the first i lines and the first j.
CommonLengths(a, b) ==
    LET dp[i \in 0..Len(a), j \in 0..Len(b)] ==
            IF i = 0 \/ j = 0 THEN 0
            ELSE IF a[i] = b[j] THEN dp[i - 1, j - 1] + 1
            ELSE IF dp[i - 1, j] >= dp[i, j - 1] THEN dp[i - 1, j] ELSE dp[i, j - 1]
    IN dp

\* The walk back from the table's last cell, already put in order.
WalkedBack(a, b) ==
    LET dp == CommonLengths(a, b)
        walk[i \in 0..Len(a), j \in 0..Len(b)] ==
            IF i = 0 THEN [k \in 1..j |-> "insert"]
            ELSE IF j = 0 THEN [k \in 1..i |-> "delete"]
            ELSE IF a[i] = b[j] THEN Append(walk[i - 1, j - 1], "equal")
            ELSE IF dp[i - 1, j] >= dp[i, j - 1] THEN Append(walk[i - 1, j], "delete")
            ELSE Append(walk[i, j - 1], "insert")
    IN walk[Len(a), Len(b)]

Op(type, line, count) == [type |-> type, line |-> line, count |-> count]

\* The walk's steps with the line each is on, its side's.
Numbered(raw, prefix) ==
    FoldLeft(LAMBDA acc, type :
                 [original |-> acc.original + (IF type = "insert" THEN 0 ELSE 1),
                  modified |-> acc.modified + (IF type = "delete" THEN 0 ELSE 1),
                  ops |-> CASE type = "equal" -> acc.ops
                            [] type = "delete" -> Append(acc.ops, Op(type, acc.original, 1))
                            [] type = "insert" -> Append(acc.ops, Op(type, acc.modified, 1))],
             [original |-> prefix + 1, modified |-> prefix + 1, ops |-> <<>>], raw).ops

GoesOn(last, op) == last.type = op.type /\ last.line + last.count = op.line

MergeLineOps(ops) ==
    FoldLeft(LAMBDA merged, op :
                 IF merged # <<>> /\ GoesOn(Last(merged), op)
                   THEN [merged EXCEPT ![Len(merged)].count = @ + op.count]
                   ELSE Append(merged, op),
             <<>>, ops)

Whole(type, line, count) == IF count = 0 THEN <<>> ELSE <<Op(type, line, count)>>

LineDiffOps(original, modified) ==
    LET prefix == CommonPrefix(original, modified)
        suffix == CommonSuffix(original, modified, prefix)
        originalMid == SubSeq(original, prefix + 1, Len(original) - suffix)
        modifiedMid == SubSeq(modified, prefix + 1, Len(modified) - suffix)
    IN IF Len(originalMid) * Len(modifiedMid) > MaxTable
         THEN Whole("delete", prefix + 1, Len(originalMid)) \o Whole("insert", prefix + 1, Len(modifiedMid))
         ELSE MergeLineOps(Numbered(WalkedBack(originalMid, modifiedMid), prefix))

----------------------------------------------------------------------------
(* What a diff is.                                                         *)

LinesOf(ops, type) ==
    UNION {ops[k].line..(ops[k].line + ops[k].count - 1) : k \in {i \in 1..Len(ops) : ops[i].type = type}}

LinesCounted(ops) == FoldLeft(LAMBDA n, op : n + op.count, 0, ops)

\* The lines left of a text without those of S.
Rest(text, S) == FoldLeft(LAMBDA kept, i : IF i \in S THEN kept ELSE Append(kept, text[i]),
                          <<>>, [i \in 1..Len(text) |-> i])

IsDiff(S, T, original, modified) == Rest(original, S) = Rest(modified, T)

\* No two sets of lines with fewer lines make a diff.
IsSmallest(S, T, original, modified) ==
    \A D \in SUBSET (1..Len(original)), I \in SUBSET (1..Len(modified)) :
        Cardinality(D) + Cardinality(I) < Cardinality(S) + Cardinality(T)
            => ~IsDiff(D, I, original, modified)

FillsTable(original, modified) ==
    LET prefix == CommonPrefix(original, modified)
        aside == prefix + CommonSuffix(original, modified, prefix)
    IN (Len(original) - aside) * (Len(modified) - aside) <= MaxTable
=============================================================================
