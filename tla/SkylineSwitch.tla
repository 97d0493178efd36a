--------------------------- MODULE SkylineSwitch ---------------------------
(***************************************************************************)
(* The SKYLINE program of the switch, data_plane/cheetah_skyline.p4.       *)
(*                                                                         *)
(* The switch remembers one row, in one register per coordinate.  A third  *)
(* register holds the greatest sum of coordinates it has met: a row with a *)
(* greater sum takes all three registers, and any other row is dropped if  *)
(* the remembered one exceeds it in both coordinates.  rules.md has no     *)
(* section for this program; its tables are taken to have an entry for the *)
(* query's flow.  As in GroupBySwitch a packet's walk is one action.       *)
(***************************************************************************)
EXTENDS Integers

CONSTANTS Values,   \* the values of a coordinate
          HalfWord  \* 2^31

\* Coordinates that the ALUs' signed comparison orders as numbers.  The sum of
\* two of them may exceed what it orders.
ASSUME SkylineAssumption ==
  /\ HalfWord \in Nat \ {0}
  /\ Values \subseteq 0 .. HalfWord - 1

Row == [x : Values, y : Values]
Words == 0 .. 2 * HalfWord - 1

VARIABLES sum,        \* reg_heuristic
          regX, regY, \* reg_x, reg_y
          forwarded,  \* the rows that left the switch (history)
          pruned      \* the rows it dropped (history)

vars == <<sum, regX, regY, forwarded, pruned>>

TypeOK ==
  /\ sum \in Words
  /\ regX \in Values \union {0} /\ regY \in Values \union {0}
  /\ forwarded \subseteq Row
  /\ pruned \subseteq Row

Init ==
  /\ sum = 0 /\ regX = 0 /\ regY = 0
  /\ forwarded = {} /\ pruned = {}

-----------------------------------------------------------------------------
\* The 32-bit difference a - b, and the ALU's tests of it against 0.
Sub(a, b) == (a - b) % (2 * HalfWord)
Positive(w) == w \in 1 .. HalfWord - 1
Negative(w) == w >= HalfWord

ValSum(r) == (r.x + r.y) % (2 * HalfWord)
Replaces(r) == Negative(Sub(sum, ValSum(r)))

\* Mutant: one coordinate is enough.
DominatesEither(r) == Positive(Sub(regX, r.x)) \/ Positive(Sub(regY, r.y))

\* dominates_x and dominates_y, which stay 0 for a row that is being stored.
Dominates(r) == Positive(Sub(regX, r.x)) /\ Positive(Sub(regY, r.y))

Prunes(r) == ~Replaces(r) /\ Dominates(r)

\* Mutant: each coordinate's register is taken by a greater coordinate.
StoreEachGreater(r) ==
  /\ sum' = IF Replaces(r) THEN ValSum(r) ELSE sum
  /\ regX' = IF Negative(Sub(regX, r.x)) THEN r.x ELSE regX
  /\ regY' = IF Negative(Sub(regY, r.y)) THEN r.y ELSE regY

\* The three ALUs: a row with a greater sum is stored.
Store(r) ==
  \/ Replaces(r) /\ sum' = ValSum(r) /\ regX' = r.x /\ regY' = r.y
  \/ ~Replaces(r) /\ UNCHANGED <<sum, regX, regY>>

Ingress(r) ==
  /\ Store(r)
  /\ \/ Prunes(r) /\ pruned' = pruned \union {r} /\ UNCHANGED forwarded
     \/ ~Prunes(r) /\ forwarded' = forwarded \union {r} /\ UNCHANGED pruned

Next == \E r \in Row : Ingress(r)

Spec == Init /\ [][Next]_vars

-----------------------------------------------------------------------------
\* OneRow: after the first row that was stored, the two coordinate registers
\* are one forwarded row's and the sum is that row's: the three ALUs, which are
\* three tables, never hold parts of different rows.
OneRow ==
  \/ sum = 0 /\ regX = 0 /\ regY = 0
  \/ \E r \in forwarded : regX = r.x /\ regY = r.y /\ sum = ValSum(r)

\* PromiseKept: a row is dropped only next to a forwarded row that exceeds it
\* in both coordinates, so the skyline of what is forwarded is that of all
\* rows; also when sums pass what the signed comparison orders
\* (cheetah_skyline.p4:43-49,95-102).
Exceeded(F, r) == \E f \in F : f.x > r.x /\ f.y > r.y
Promise == INSTANCE PruningSpec WITH Rows <- Row, Redundant <- Exceeded
PromiseKept == Promise!Spec

\* SkylineSurvives: every row of the skyline of all rows is among those that
\* were forwarded.
SkylineSurvives ==
  \A r \in forwarded \union pruned :
    ~Exceeded(forwarded \union pruned, r) => r \in forwarded
=============================================================================
