--------------------------- MODULE EvidenceProofs ---------------------------
(***************************************************************************)
(* Proofs about EvidenceStream, for every set of inputs and every skew.    *)
(***************************************************************************)
EXTENDS EvidenceStream, TLAPS

\* upsertEvidence keeps one row per source: the rows it returns are old rows
\* or the input, and the input meets no other row of its source.
LEMMA UpsertKeepsUnique ==
    ASSUME NEW table, NEW i,
           \A r, s \in table : SameSource(r, s) => r = s
    PROVE  /\ UpsertEvidence(table, i) \subseteq table \cup {i}
           /\ \A r, s \in UpsertEvidence(table, i) : SameSource(r, s) => r = s
BY DEF UpsertEvidence, SameSource

\* The evidence table holds delivered inputs only, one per source.
THEOREM TypeCorrect == Spec => []TypeOK
<1>1. Init => TypeOK
  BY DEF Init, TypeOK
<1>2. TypeOK /\ [Next]_vars => TypeOK'
  <2> SUFFICES ASSUME TypeOK, [Next]_vars PROVE TypeOK'
    OBVIOUS
  <2>1. ASSUME NEW i \in Inputs, Deliver(i) PROVE TypeOK'
    <3>1. UpsertEvidence(rows, i) \subseteq rows \cup {i}
      BY UpsertKeepsUnique DEF TypeOK
    <3>2. \A r, s \in UpsertEvidence(rows, i) : SameSource(r, s) => r = s
      BY UpsertKeepsUnique DEF TypeOK
    <3> QED
      BY <2>1, <3>1, <3>2 DEF TypeOK, Deliver
  <2>2. CASE UNCHANGED vars
    BY <2>2 DEF TypeOK, vars
  <2> QED
    BY <2>1, <2>2 DEF Next
<1> QED
  BY <1>1, <1>2, PTL DEF Spec

\* One delivery: the table already converged for what came before, and does
\* for the new input as well, whichever of the two the upsert keeps.
LEMMA UpsertConverges ==
    ASSUME TypeOK, RowsConverge, NEW i \in Inputs,
           NEW j \in delivered \cup {i}
    PROVE  \E r \in UpsertEvidence(rows, i) :
             /\ SameSource(r, j)
             /\ r.at >= j.at
             /\ (r.at = j.at /\ ~j.valid) => ~r.valid
<1> DEFINE conflict == {r \in rows : SameSource(r, i)}
<1>0. /\ i \in EvidenceInput /\ j \in EvidenceInput
      /\ \A r \in rows : r \in EvidenceInput
  BY InputsAssumption DEF TypeOK
<1>1. \A e \in EvidenceInput : e.at \in Nat /\ e.valid \in BOOLEAN
  BY DEF EvidenceInput
<1>2. CASE \A r \in conflict : Replaces(i, r)
  <2>1. UpsertEvidence(rows, i) = (rows \ conflict) \cup {i}
    BY <1>2 DEF UpsertEvidence
  <2>2. CASE j = i
    BY <2>1, <2>2, <1>0, <1>1 DEF SameSource
  <2>3. CASE j \in delivered
    <3>1. PICK r \in rows : /\ SameSource(r, j)
                            /\ r.at >= j.at
                            /\ (r.at = j.at /\ ~j.valid) => ~r.valid
      BY <2>3 DEF RowsConverge
    <3>2. CASE SameSource(r, i)
      <4>1. Replaces(i, r) /\ SameSource(i, j)
        BY <3>1, <3>2, <1>2 DEF SameSource
      <4>2. i.at >= j.at /\ ((i.at = j.at /\ ~j.valid) => ~i.valid)
        BY <3>1, <4>1, <1>0, <1>1 DEF Replaces
      <4> QED
        BY <2>1, <4>1, <4>2
    <3>3. CASE ~SameSource(r, i)
      BY <2>1, <3>1, <3>3
    <3> QED
      BY <3>2, <3>3
  <2> QED
    BY <2>2, <2>3
<1>3. CASE ~(\A r \in conflict : Replaces(i, r))
  <2>1. UpsertEvidence(rows, i) = rows
    BY <1>3 DEF UpsertEvidence
  <2>2. CASE j = i
    <3>1. PICK r \in conflict : ~Replaces(i, r)
      BY <1>3
    <3>2. r.at >= i.at /\ ((r.at = i.at /\ ~i.valid) => ~r.valid)
      BY <3>1, <1>0, <1>1 DEF Replaces
    <3> QED
      BY <2>1, <2>2, <3>1, <3>2
  <2>3. CASE j \in delivered
    BY <2>1, <2>3 DEF RowsConverge
  <2> QED
    BY <2>2, <2>3
<1> QED
  BY <1>2, <1>3

\* In whatever order the inputs are delivered, and however often, the table
\* holds the newest input of every source and no deletion is lost to a delayed
\* positive delivery of the same time.
THEOREM Convergence == Spec => []RowsConverge
<1>1. Init => RowsConverge
  BY DEF Init, RowsConverge
<1>2. TypeOK /\ RowsConverge /\ [Next]_vars => RowsConverge'
  <2> SUFFICES ASSUME TypeOK, RowsConverge, [Next]_vars PROVE RowsConverge'
    OBVIOUS
  <2>1. ASSUME NEW i \in Inputs, Deliver(i) PROVE RowsConverge'
    BY <2>1, UpsertConverges DEF RowsConverge, Deliver
  <2>2. CASE UNCHANGED vars
    BY <2>2 DEF RowsConverge, vars
  <2> QED
    BY <2>1, <2>2 DEF Next
<1> QED
  BY <1>1, <1>2, TypeCorrect, PTL DEF Spec

\* What a success rests on: for every kind a newest row, valid and created
\* after the dispatch.
LEMMA SuccessRests ==
    ASSUME Decision = "success", NEW kind \in Kinds
    PROVE  \E r \in Latest(rows, kind) : r.valid /\ ~(r.created <= DispatchedAt)
<1> DEFINE newest(k) == CHOOSE r \in rows : r \in Latest(rows, k)
<1>1. \A k \in Kinds : Latest(rows, k) # {}
  BY DEF Decision, EvaluateEvidence
<1>2. \A k \in Kinds : newest(k) \in Latest(rows, k)
  BY <1>1 DEF Latest
<1>3. Correlate(DispatchedAt, newest("status"), newest("review"),
                newest("issue_comment")) = "success"
  BY <1>1 DEF Decision, EvaluateEvidence
<1>4. \A r \in {newest("status"), newest("review"), newest("issue_comment")} :
         r.valid /\ ~(r.created <= DispatchedAt)
  <2> HIDE DEF newest
  <2> QED
    BY <1>3 DEF Correlate
<1> QED
  BY <1>2, <1>4 DEF Kinds

\* A success is never contradicted by what was delivered.
THEOREM SuccessHolds == Spec => []SuccessUncontradicted
<1>1. TypeOK /\ RowsConverge => SuccessUncontradicted
  <2> SUFFICES ASSUME TypeOK, RowsConverge, Decision = "success", NEW kind \in Kinds
               PROVE  \E r \in Latest(rows, kind) :
                        /\ r.created > DispatchedAt
                        /\ \A i \in delivered :
                              /\ (i.kind = kind /\ i.authentic) => i.at <= r.at
                              /\ (SameSource(i, r) /\ i.at = r.at) => i.valid
    BY DEF SuccessUncontradicted
  <2>1. PICK r \in Latest(rows, kind) : r.valid /\ ~(r.created <= DispatchedAt)
    BY SuccessRests
  <2>2. /\ r \in rows /\ r.kind = kind /\ r.authentic
        /\ \A s \in rows : (s.kind = kind /\ s.authentic) => Newer(r, s)
    BY DEF Latest
  <2>3. \A e \in delivered : /\ e \in Inputs /\ e.at \in Nat /\ e.created \in Nat
                             /\ e.valid \in BOOLEAN /\ e.authentic \in BOOLEAN
    BY InputsAssumption DEF TypeOK, EvidenceInput
  <2>4. r.created > DispatchedAt
    BY <2>1, <2>2, <2>3, DispatchAssumption DEF TypeOK
  <2>5. ASSUME NEW i \in delivered
        PROVE  /\ (i.kind = kind /\ i.authentic) => i.at <= r.at
               /\ (SameSource(i, r) /\ i.at = r.at) => i.valid
    <3>1. PICK s \in rows : /\ SameSource(s, i) /\ s.at >= i.at
                            /\ (s.at = i.at /\ ~i.valid) => ~s.valid
      BY DEF RowsConverge
    <3>2. s \in delivered /\ s.authentic = i.authentic
      BY <3>1, <2>3, InputsAssumption DEF TypeOK, SameSource
    <3>3. ASSUME i.kind = kind, i.authentic PROVE i.at <= r.at
      <4>1. s.kind = kind /\ s.authentic
        BY <3>1, <3>2, <3>3 DEF SameSource
      <4>2. Newer(r, s) /\ r \in delivered
        BY <4>1, <2>2 DEF TypeOK
      <4> QED
        BY <4>2, <3>1, <3>2, <2>3 DEF Newer
    <3>4. (SameSource(i, r) /\ i.at = r.at) => i.valid
      BY <3>1, <2>1, <2>2 DEF TypeOK, SameSource
    <3> QED
      BY <3>3, <3>4
  <2> QED
    BY <2>4, <2>5
<1> QED
  BY <1>1, TypeCorrect, Convergence, PTL
=============================================================================
