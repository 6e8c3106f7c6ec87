------------------------ MODULE OdbcStatementProofs ------------------------
(***************************************************************************)
(* Proofs about OdbcStatement for any number of parameters, rows and       *)
(* statements and any lengths: types, data at execution, and the piecewise *)
(* reading of a column.                                                    *)
(***************************************************************************)
EXTENDS OdbcStatement, SequenceTheorems, NaturalsInduction, FiniteSetTheorems, TLAPS

\* While a wait is active it has parameters left, and the stream of each of
\* them, not only of the current one, is open.
WaitOpen ==
    dae.active =>
        /\ dae.params # {}
        /\ \A p \in dae.params : p \in bound /\ streams[<<p, dae.row>>].at = "open"

\* A complete stream of announced length has that length.
CompleteIsLong ==
    \A k \in Keys : streams[k].at = "complete" /\ streams[k].known
                       => streams[k].size >= streams[k].length

\* Only SQLCancel leaves a prepared statement bytes that were put for
\* another execution.
OldAfterCancel == prepared /\ old # {} => cancelled

\* The data-at-execution half of the types.
PutTypes ==
    /\ prepared \in BOOLEAN /\ cancelled \in BOOLEAN
    /\ bound \in SUBSET Params /\ ind \in [Keys -> Indicators]
    /\ paramset \in 1..MaxParamset
    /\ dae \in [active: BOOLEAN, params: SUBSET Params, row: 0..(MaxParamset - 1)]
    /\ streams \in [Keys -> Streams] /\ old \in SUBSET Keys
    /\ sent \in [stale: BOOLEAN, short: BOOLEAN, cancelled: BOOLEAN]

PutInv == PutTypes /\ WaitOpen /\ CompleteIsLong /\ OldAfterCancel /\ ExecutesWhatWasPut

\* The half of the types about results.
Columns == [bound: BOOLEAN, target: BOOLEAN, length: 0..MaxBuffer]
Pieces == [on: 0..MaxRows, offset: 0..ValueLen]
ResultTypes ==
    /\ open \in BOOLEAN /\ scroll \in BOOLEAN /\ lost \in BOOLEAN
    /\ sets \in Seq(Results) /\ index \in Nat
    /\ rows \in Seq(1..MaxRows) /\ row \in 0..Len(rows)
    /\ open => index < Len(sets)
    /\ column \in Columns
    /\ piece \in Pieces /\ read \in 0..ValueLen

ResultInv == ResultTypes /\ PieceInStep

\* The inductive invariant: the two halves of a statement.
StatementInv == PutInv /\ ResultInv

\* The two halves, with nothing else, are the type invariant.
LEMMA HalvesGiveTypes == PutTypes /\ ResultTypes => TypeOK
  <1>1. ASSUME PutTypes, ResultTypes PROVE TypeOK
    BY <1>1, Zenon DEF PutTypes, ResultTypes, TypeOK, Columns, Pieces
  <1> QED BY <1>1

-----------------------------------------------------------------------------
(* Facts about the operators.                                              *)

\* Parameter numbers are positive; 0 stands for no parameter.
LEMMA ParamNumbers == Params \subseteq Nat /\ 0 \notin Params
  <1>1. Cardinality(Params) \in Nat
    BY StatementAssumption, FS_CardinalityType
  <1> QED BY <1>1, StatementAssumption

\* The length an indicator announces, 0 when it announces none.
LEMMA AnnouncedLength == \A i \in Indicators : i.length \in 0..MaxLen /\ i.known \in BOOLEAN
  <1> SUFFICES ASSUME NEW i \in Indicators PROVE i.length \in 0..MaxLen /\ i.known \in BOOLEAN
    OBVIOUS
  <1>1. MaxLen \in Nat
    BY StatementAssumption
  <1>2. CASE i \in {[dae |-> TRUE, known |-> TRUE, length |-> n] : n \in 0..MaxLen}
    <2>1. PICK n \in 0..MaxLen : i = [dae |-> TRUE, known |-> TRUE, length |-> n]
      BY <1>2
    <2>2. i.length = n /\ i.known = TRUE
      BY <2>1
    <2> QED BY <2>2
  <1>3. CASE i = Plain
    <2>1. i.length = 0 /\ i.known = FALSE
      BY <1>3 DEF Plain
    <2>2. i.known \in BOOLEAN
      BY <2>1, Zenon
    <2> QED BY <1>1, <2>1, <2>2
  <1>4. CASE i = [dae |-> TRUE, known |-> FALSE, length |-> 0]
    <2>1. i.length = 0 /\ i.known = FALSE
      BY <1>4
    <2>2. i.known \in BOOLEAN
      BY <2>1, Zenon
    <2> QED BY <1>1, <2>1, <2>2
  <1> QED BY <1>2, <1>3, <1>4 DEF Indicators

\* getCurrentDataAtExecParameter names a parameter that still lacks data.
LEMMA CurrentIsPending ==
    ASSUME dae.params \subseteq Params, dae.params # {}, dae.active
    PROVE  CurrentParam \in dae.params /\ CurrentParam # 0
  <1> DEFINE T == dae.params
  <1>1. T \subseteq Nat
    BY ParamNumbers
  <1>2. \E x \in T : \A y \in T : ~ (<<y, x>> \in OpToRel(<, Nat))
    BY <1>1, WFMin, NatLessThanWellFounded, Zenon
  <1>3. PICK x \in T : \A y \in T : ~ (<<y, x>> \in OpToRel(<, Nat))
    BY <1>2
  <1>4. \A y \in T : ~ (y < x)
    <2> SUFFICES ASSUME NEW y \in T PROVE ~ (y < x)
      OBVIOUS
    <2>1. y \in Nat /\ x \in Nat
      BY <1>1
    <2>2. ~ (<<y, x>> \in OpToRel(<, Nat))
      BY <1>3
    <2> QED BY <2>1, <2>2, Zenon DEF OpToRel
  <1>5. \A y \in T : x =< y
    BY <1>1, <1>4
  <1>6. Min(T) \in T
    BY <1>5 DEF Min
  <1>7. CurrentParam = Min(T)
    BY DEF CurrentParam
  <1> QED BY <1>6, <1>7, ParamNumbers

\* SQL_DELETE of one row leaves the others.
LEMMA RemoveOneRow ==
    ASSUME NEW s \in Seq(1..MaxRows), NEW n \in 1..Len(s)
    PROVE  RemoveAt(s, n) \in Seq(1..MaxRows) /\ Len(RemoveAt(s, n)) = Len(s) - 1
  <1> DEFINE a == SubSeq(s, 1, n - 1)
             b == SubSeq(s, n + 1, Len(s))
  <1>0. Len(s) \in Nat
    BY LenProperties
  <1>a. \A i \in 1..Len(s) : s[i] \in 1..MaxRows
    BY ElementOfSeq
  <1>1. Len(s) \in Nat /\ n \in Int /\ \A i \in 1..Len(s) : s[i] \in 1..MaxRows
    BY <1>0, <1>a
  <1>2. \A i \in 1..(n - 1) : s[i] \in 1..MaxRows
    BY <1>1
  <1>3. \A i \in (n + 1)..Len(s) : s[i] \in 1..MaxRows
    BY <1>1
  <1>4. a \in Seq(1..MaxRows) /\ Len(a) = IF 1 <= n - 1 THEN (n - 1) - 1 + 1 ELSE 0
    <2>1. 1 \in Int /\ n - 1 \in Int
      BY <1>1
    <2> QED BY <1>2, <2>1, SubSeqProperties
  <1>5. b \in Seq(1..MaxRows) /\ Len(b) = IF n + 1 <= Len(s) THEN Len(s) - (n + 1) + 1 ELSE 0
    <2>1. n + 1 \in Int /\ Len(s) \in Int
      BY <1>1
    <2> QED BY <1>3, <2>1, SubSeqProperties
  <1>6. RemoveAt(s, n) = a \o b
    BY DEF RemoveAt
  <1> HIDE DEF a, b
  <1>7. a \o b \in Seq(1..MaxRows) /\ Len(a \o b) = Len(a) + Len(b)
    BY <1>4, <1>5, ConcatProperties
  <1>8. Len(a) = n - 1 /\ Len(b) = Len(s) - n
    BY <1>1, <1>4, <1>5
  <1>9. Len(a) + Len(b) = Len(s) - 1
    BY <1>1, <1>8
  <1> QED BY <1>6, <1>7, <1>9

-----------------------------------------------------------------------------
(* Data at execution: each kind of step preserves PutInv.                  *)

\* Nothing has been bound or put at first.
LEMMA PutStart == Init => PutInv
  <1> SUFFICES ASSUME Init PROVE PutInv
    OBVIOUS
  <1>1. NoStream \in Streams /\ Plain \in Indicators
    BY StatementAssumption DEF NoStream, Streams, Plain, Indicators
  <1>2. streams \in [Keys -> Streams] /\ ind \in [Keys -> Indicators]
    BY <1>1 DEF Init
  <1>3. Idle \in [active: BOOLEAN, params: SUBSET Params, row: 0..(MaxParamset - 1)]
    BY StatementAssumption DEF Idle
  <1>4. paramset \in 1..MaxParamset
    BY StatementAssumption DEF Init
  <1>5. sent \in [stale: BOOLEAN, short: BOOLEAN, cancelled: BOOLEAN]
    BY DEF Init
  <1>6. prepared \in BOOLEAN /\ cancelled \in BOOLEAN /\ dae = Idle /\ bound = {} /\ old = {}
    BY DEF Init
  <1>7. PutTypes
    BY <1>2, <1>3, <1>4, <1>5, <1>6 DEF PutTypes
  <1>8. WaitOpen /\ OldAfterCancel
    BY <1>6 DEF WaitOpen, Idle, OldAfterCancel
  <1>9. CompleteIsLong
    BY DEF Init, CompleteIsLong, NoStream
  <1>10. ExecutesWhatWasPut
    BY DEF Init, ExecutesWhatWasPut
  <1> QED BY <1>7, <1>8, <1>9, <1>10 DEF PutInv

\* A step that leaves data at execution alone, but for the indicators, the
\* size of the parameter set, or a catalog function's end of the prepared
\* statement.
LEMMA PutKeeps ==
    ASSUME PutInv, UNCHANGED <<bound, dae, streams, sent>>,
           ind' \in [Keys -> Indicators], paramset' \in 1..MaxParamset,
           prepared' \in BOOLEAN, cancelled' \in BOOLEAN, old' \in SUBSET Keys, OldAfterCancel'
    PROVE  PutInv'
  <1> USE DEF PutInv
  <1>1. PutTypes'
    BY DEF PutTypes
  <1>2. WaitOpen'
    BY DEF WaitOpen
  <1>3. CompleteIsLong'
    BY DEF CompleteIsLong
  <1>4. ExecutesWhatWasPut'
    BY DEF ExecutesWhatWasPut
  <1> QED BY <1>1, <1>2, <1>3, <1>4

\* A step that leaves it alone altogether.
LEMMA PutStutter == PutInv /\ UNCHANGED putVars => PutInv'
  <1> SUFFICES ASSUME PutInv, UNCHANGED putVars PROVE PutInv'
    OBVIOUS
  <1>1. /\ ind' \in [Keys -> Indicators] /\ paramset' \in 1..MaxParamset
        /\ prepared' \in BOOLEAN /\ cancelled' \in BOOLEAN /\ old' \in SUBSET Keys
    BY DEF PutInv, PutTypes, putVars
  <1>2. OldAfterCancel'
    BY DEF PutInv, OldAfterCancel, putVars
  <1>3. UNCHANGED <<bound, dae, streams, sent>>
    BY DEF putVars
  <1> QED BY <1>1, <1>2, <1>3, PutKeeps

\* The calls that end in clearPutDataState, whatever else they do.
LEMMA PutClears ==
    ASSUME PutInv, ClearPutDataState, Ended,
           prepared' \in BOOLEAN, bound' \in SUBSET Params, ind' \in [Keys -> Indicators],
           paramset' \in 1..MaxParamset,
           sent' \in [stale: BOOLEAN, short: BOOLEAN, cancelled: BOOLEAN], ExecutesWhatWasPut'
    PROVE  PutInv'
  <1>1. \A k \in Keys : streams'[k] = NoStream
    BY DEF ClearPutDataState
  <1>2. NoStream \in Streams
    BY StatementAssumption DEF NoStream, Streams
  <1>3. streams' \in [Keys -> Streams]
    BY <1>2 DEF ClearPutDataState
  <1>4. Idle \in [active: BOOLEAN, params: SUBSET Params, row: 0..(MaxParamset - 1)]
    BY StatementAssumption DEF Idle
  <1>5. old' = {} /\ cancelled' = FALSE
    BY <1>1 DEF Ended, NoStream
  <1>6. PutTypes'
    BY <1>3, <1>4, <1>5 DEF ClearPutDataState, PutTypes
  <1>7. WaitOpen'
    BY DEF ClearPutDataState, WaitOpen, Idle
  <1>8. CompleteIsLong'
    BY <1>1 DEF CompleteIsLong, NoStream
  <1>9. OldAfterCancel'
    BY <1>5 DEF OldAfterCancel
  <1> QED BY <1>6, <1>7, <1>8, <1>9 DEF PutInv

\* A stream that is opened, or finds a new length announced.
LEMMA OpenedStream ==
    ASSUME NEW s \in Streams, NEW i \in Indicators, s.at # "complete"
    PROVE  Opened(s, i) \in Streams /\ Opened(s, i).at = "open"
  <1>1. i.known \in BOOLEAN /\ i.length \in 0..MaxLen
    BY AnnouncedLength
  <1>2. s.at \in {"none", "open"} /\ s.size \in 0..MaxLen
    BY DEF Streams
  <1>3. CASE s.at = "none"
    <2>1. Opened(s, i) = [at |-> "open", size |-> 0, known |-> i.known, length |-> i.length]
      BY <1>3 DEF Opened
    <2> QED BY <1>1, <2>1, StatementAssumption DEF Streams
  <1>4. CASE s.at = "open" /\ i.known
    <2>1. Opened(s, i) = [at |-> s.at, size |-> s.size, known |-> TRUE, length |-> i.length]
      BY <1>4 DEF Opened
    <2> QED BY <1>1, <1>2, <1>4, <2>1 DEF Streams
  <1>5. CASE s.at = "open" /\ ~i.known
    BY <1>5 DEF Opened
  <1> QED BY <1>2, <1>3, <1>4, <1>5

\* A wait that begins, or goes on.
LEMMA PutWaits ==
    ASSUME PutInv, NEW r \in 0..(MaxParamset - 1), NeedData(r),
           UNCHANGED <<prepared, bound, ind, paramset, old, sent, cancelled>>
    PROVE  PutInv'
  <1> USE DEF PutInv
  <1>1. CASE dae.active /\ dae.params # {} /\ dae.row = r
    <2>1. UNCHANGED <<dae, streams>>
      BY <1>1 DEF NeedData
    <2> QED BY <2>1, PutStutter DEF putVars
  <1>2. CASE ~ (dae.active /\ dae.params # {} /\ dae.row = r)
    <2>1. dae' = [active |-> TRUE, params |-> Pending(r), row |-> r]
      BY <1>2 DEF NeedData
    <2>2. streams' = [k \in Keys |-> IF k[2] = r /\ k[1] \in Pending(r)
                                     THEN Opened(streams[k], ind[k]) ELSE streams[k]]
      BY <1>2 DEF NeedData
    <2>3. Pending(r) # {} /\ Pending(r) \subseteq bound /\ bound \subseteq Params
      BY DEF NeedData, Pending, PutTypes
    <2>4. streams \in [Keys -> Streams] /\ ind \in [Keys -> Indicators]
      BY DEF PutTypes
    <2>5. ASSUME NEW k \in Keys, k[2] = r, k[1] \in Pending(r)
          PROVE  streams'[k] \in Streams /\ streams'[k].at = "open"
      <3>1. k = <<k[1], r>>
        BY <2>5 DEF Keys
      <3>2. streams[k].at # "complete"
        BY <2>5, <3>1 DEF Pending
      <3>3. streams'[k] = Opened(streams[k], ind[k])
        BY <2>2, <2>5
      <3>4. streams[k] \in Streams /\ ind[k] \in Indicators
        BY <2>4
      <3> QED BY <3>2, <3>3, <3>4, OpenedStream
    <2>6. ASSUME NEW k \in Keys, ~ (k[2] = r /\ k[1] \in Pending(r))
          PROVE  streams'[k] = streams[k]
      BY <2>2, <2>6
    <2>7. streams' \in [Keys -> Streams]
      <3>1. DOMAIN streams' = Keys /\ streams' = [k \in Keys |-> streams'[k]]
        BY <2>2
      <3>2. \A k \in Keys : streams'[k] \in Streams
        BY <2>4, <2>5, <2>6
      <3> QED BY <3>1, <3>2
    <2>8. dae' \in [active: BOOLEAN, params: SUBSET Params, row: 0..(MaxParamset - 1)]
      BY <2>1, <2>3
    <2>9. PutTypes'
      BY <2>7, <2>8 DEF PutTypes
    <2>10. WaitOpen'
      <3>1. \A p \in Pending(r) : streams'[<<p, r>>].at = "open"
        BY <2>3, <2>5 DEF Keys
      <3> QED BY <2>1, <2>3, <3>1 DEF WaitOpen
    <2>11. CompleteIsLong'
      <3> SUFFICES ASSUME NEW k \in Keys, streams'[k].at = "complete", streams'[k].known
                   PROVE  streams'[k].size >= streams'[k].length
        BY DEF CompleteIsLong
      <3>1. streams'[k] = streams[k]
        BY <2>5, <2>6
      <3> QED BY <3>1 DEF CompleteIsLong
    <2>12. OldAfterCancel'
      BY DEF OldAfterCancel
    <2>13. ExecutesWhatWasPut'
      BY DEF ExecutesWhatWasPut
    <2> QED BY <2>9, <2>10, <2>11, <2>12, <2>13
  <1> QED BY <1>1, <1>2

\* SQLPutData.
LEMMA PutPiece ==
    ASSUME PutInv, NEW n \in 0..(MaxLen + 1), PutData(n)
    PROVE  PutInv'
  <1> USE DEF PutInv
  <1> DEFINE p == CurrentParam
             k == <<p, dae.row>>
             s == streams[k]
             room == s.length - s.size
             size == IF ~s.known \/ n <= room THEN s.size + n
                     ELSE IF room <= 0 THEN s.size ELSE s.length
             ends == IF s.known THEN size >= s.length ELSE n = 0
             new == [at |-> IF ends THEN "complete" ELSE "open", size |-> size,
                     known |-> s.known, length |-> s.length]
  <1>1. /\ p # 0 /\ s.at = "open" /\ size <= MaxLen
        /\ streams' = [streams EXCEPT ![k] = new]
        /\ IF ends THEN Advance ELSE UNCHANGED dae
        /\ UNCHANGED <<prepared, bound, ind, paramset, old, sent, cancelled>>
    BY DEF PutData
  <1>2. dae.active /\ dae.params # {} /\ dae.params \subseteq Params /\ dae.row \in 0..(MaxParamset - 1)
    BY <1>1 DEF CurrentParam, PutTypes
  <1>3. p \in dae.params /\ p \in Params
    BY <1>2, CurrentIsPending
  <1>4. k \in Keys
    BY <1>2, <1>3 DEF Keys
  <1>5. streams \in [Keys -> Streams]
    BY DEF PutTypes
  <1>6. s \in Streams
    BY <1>4, <1>5
  <1>7. s.size \in 0..MaxLen /\ s.length \in 0..MaxLen /\ s.known \in BOOLEAN
    BY <1>6 DEF Streams
  <1> HIDE DEF s
  <1>8. size \in 0..MaxLen
    BY <1>1, <1>7, StatementAssumption
  <1> HIDE DEF size
  <1>9. new \in Streams
    <2>1. (IF ends THEN "complete" ELSE "open") \in {"none", "open", "complete"}
      OBVIOUS
    <2> HIDE DEF ends
    <2> QED BY <1>7, <1>8, <2>1 DEF Streams
  <1>10. new.at = "complete" /\ new.known => new.size >= new.length
    OBVIOUS
  <1>11. new.at = IF ends THEN "complete" ELSE "open"
    OBVIOUS
  <1> HIDE DEF p, k, ends, new
  <1>12. streams'[k] = new /\ streams' \in [Keys -> Streams]
    BY <1>1, <1>4, <1>5, <1>9
  <1>13. \A j \in Keys : j # k => streams'[j] = streams[j]
    BY <1>1, <1>5
  <1>14. dae' = IF ends THEN IF dae.params # {p} THEN [dae EXCEPT !.params = @ \ {p}]
                                                 ELSE [dae EXCEPT !.active = FALSE]
                        ELSE dae
    BY <1>1 DEF Advance, p
  <1>15. dae' \in [active: BOOLEAN, params: SUBSET Params, row: 0..(MaxParamset - 1)] /\ dae'.row = dae.row
    BY <1>14 DEF PutTypes
  <1>16. PutTypes'
    BY <1>1, <1>12, <1>15 DEF PutTypes
  <1>17. WaitOpen'
    <2> SUFFICES ASSUME dae'.active
                 PROVE  /\ dae'.params # {}
                        /\ \A q \in dae'.params : q \in bound /\ streams'[<<q, dae.row>>].at = "open"
      BY <1>1, <1>15 DEF WaitOpen
    <2>1. \A q \in dae.params : q \in bound /\ streams[<<q, dae.row>>].at = "open"
      BY <1>2 DEF WaitOpen
    <2>2. \A q \in dae.params : q # p => streams'[<<q, dae.row>>] = streams[<<q, dae.row>>]
      <3> SUFFICES ASSUME NEW q \in dae.params, q # p
                   PROVE  streams'[<<q, dae.row>>] = streams[<<q, dae.row>>]
        OBVIOUS
      <3>1. <<q, dae.row>> \in Keys /\ <<q, dae.row>> # k
        BY <1>2 DEF Keys, k
      <3> QED BY <1>13, <3>1
    <2>3. CASE ends
      <3>1. dae.params # {p} /\ dae'.params = dae.params \ {p}
        BY <1>14, <2>3 DEF PutTypes
      <3> QED BY <1>2, <1>3, <2>1, <2>2, <3>1
    <2>4. CASE ~ends
      <3>1. dae' = dae /\ streams'[k].at = "open"
        BY <1>11, <1>12, <1>14, <2>4
      <3> QED BY <1>2, <2>1, <2>2, <3>1 DEF k
    <2> QED BY <2>3, <2>4
  <1>18. CompleteIsLong'
    <2> SUFFICES ASSUME NEW j \in Keys, streams'[j].at = "complete", streams'[j].known
                 PROVE  streams'[j].size >= streams'[j].length
      BY DEF CompleteIsLong
    <2>1. CASE j = k
      BY <1>10, <1>12, <2>1
    <2>2. CASE j # k
      BY <1>13, <2>2 DEF CompleteIsLong
    <2> QED BY <2>1, <2>2
  <1>19. OldAfterCancel'
    BY <1>1 DEF OldAfterCancel
  <1>20. ExecutesWhatWasPut'
    BY <1>1 DEF ExecutesWhatWasPut
  <1> QED BY <1>16, <1>17, <1>18, <1>19, <1>20

\* What an execution sends when nothing it looks at is pending.
LEMMA PutSends ==
    ASSUME PutInv, prepared, NEW rs, rs \subseteq 0..(MaxParamset - 1),
           \A r \in rs : Pending(r) \cap Built = {}, Sends(rs)
    PROVE  sent' \in [stale: BOOLEAN, short: BOOLEAN, cancelled: BOOLEAN] /\ ExecutesWhatWasPut'
  <1> USE DEF PutInv
  <1> DEFINE used == {k \in Keys : k[1] \in Built /\ k[2] \in rs /\ ind[k].dae}
  <1>1. sent' = [stale |-> used \cap old # {},
                 short |-> \E k \in used : \/ streams[k].at # "complete"
                                           \/ streams[k].known /\ streams[k].size < streams[k].length,
                 cancelled |-> cancelled]
    BY DEF Sends
  <1>2. ASSUME NEW k \in used PROVE streams[k].at = "complete"
    <2>1. k \in Keys /\ k[1] \in Built /\ k[2] \in rs /\ ind[k].dae
      OBVIOUS
    <2>2. k = <<k[1], k[2]>>
      BY <2>1 DEF Keys
    <2>3. k[1] \notin Pending(k[2]) /\ k[1] \in bound
      BY <2>1 DEF Built
    <2> QED BY <2>1, <2>2, <2>3 DEF Pending
  <1>3. ASSUME NEW k \in used PROVE ~ (streams[k].known /\ streams[k].size < streams[k].length)
    <2>1. k \in Keys
      OBVIOUS
    <2>2. streams[k] \in Streams
      BY <2>1 DEF PutTypes
    <2>3. streams[k].size \in Int /\ streams[k].length \in Int
      BY <2>2 DEF Streams
    <2> QED BY <1>2, <2>1, <2>3 DEF CompleteIsLong
  <1>4. used \cap old # {} => cancelled
    BY DEF OldAfterCancel
  <1>5. cancelled \in BOOLEAN
    BY DEF PutTypes
  <1> HIDE DEF used
  <1>6. sent' \in [stale: BOOLEAN, short: BOOLEAN, cancelled: BOOLEAN]
    BY <1>1, <1>5
  <1>7. ~ sent'.short
    BY <1>1, <1>2, <1>3
  <1>8. sent'.stale => sent'.cancelled
    BY <1>1, <1>4
  <1> QED BY <1>6, <1>7, <1>8 DEF ExecutesWhatWasPut

-----------------------------------------------------------------------------
(* Results, cursor and pieces: each kind of step preserves ResultInv.      *)

\* There is no result set at first.
LEMMA ResultStart == Init => ResultInv
  <1> SUFFICES ASSUME Init PROVE ResultInv
    OBVIOUS
  <1>1. sets \in Seq(Results) /\ rows \in Seq(1..MaxRows) /\ Len(rows) = 0
    BY EmptySeq DEF Init
  <1>2. NoPiece \in Pieces /\ NoColumn \in Columns /\ read \in 0..ValueLen /\ row \in 0..Len(rows)
    BY <1>1, StatementAssumption DEF Init, NoPiece, NoColumn, Pieces, Columns
  <1>3. ResultTypes
    BY <1>1, <1>2 DEF Init, ResultTypes
  <1>4. PieceInStep
    BY DEF Init, PieceInStep, NoPiece
  <1> QED BY <1>3, <1>4 DEF ResultInv

\* A step that leaves the result sets alone.
LEMMA ResultStutter ==
    ASSUME ResultInv, UNCHANGED resultVars, scroll' \in BOOLEAN, column' \in Columns
    PROVE  ResultInv'
  <1> USE DEF ResultInv, resultVars
  <1>1. ResultTypes'
    BY DEF ResultTypes
  <1>2. PieceInStep'
    BY DEF PieceInStep
  <1> QED BY <1>1, <1>2

\* Steps that clear the stream may move the cursor and replace the results;
\* the application starts to read the row anew, or was at its start, or
\* cannot tell.
LEMMA ResultClears ==
    ASSUME ResultInv, ClearGetDataState, read' = 0, lost' \in BOOLEAN, UNCHANGED <<scroll, column>>,
           open' \in BOOLEAN, sets' \in Seq(Results), index' \in Nat,
           rows' \in Seq(1..MaxRows), row' \in 0..Len(rows'), open' => index' < Len(sets')
    PROVE  ResultInv'
  <1> USE DEF ResultInv
  <1>1. piece' = NoPiece
    BY DEF ClearGetDataState
  <1>2. NoPiece \in Pieces /\ read' \in 0..ValueLen
    BY StatementAssumption DEF NoPiece, Pieces
  <1>3. ResultTypes'
    BY <1>1, <1>2 DEF ResultTypes
  <1>4. PieceInStep'
    BY <1>1 DEF PieceInStep, NoPiece
  <1> QED BY <1>3, <1>4

\* What StartsOver says.
LEMMA Anew == StartsOver => read' = 0 /\ lost' = FALSE
  BY DEF StartsOver, Reading

\* applyResultSet.
LEMMA ResultApplies ==
    ASSUME ResultInv, NEW b \in Seq(Results), NEW i \in Nat, i < Len(b),
           sets' = b, ApplyResultSet(b, i), UNCHANGED <<scroll, column>>
    PROVE  ResultInv'
  <1> DEFINE m == IF b[i + 1] = -1 THEN 0 ELSE b[i + 1]
             f == [n \in 1..m |-> n]
  <1>1. index' = i /\ row' = 0 /\ open' = (b[i + 1] # -1) /\ rows' = f
        /\ ClearGetDataState /\ StartsOver
    BY DEF ApplyResultSet
  <1>2. i + 1 \in 1..Len(b)
    BY LenProperties
  <1>3. b[i + 1] \in -1..MaxRows
    BY <1>2, ElementOfSeq DEF Results
  <1>4. m \in 0..MaxRows
    BY <1>3, StatementAssumption
  <1> HIDE DEF m
  <1>5. \A n \in 1..m : n \in 1..MaxRows
    BY <1>4, StatementAssumption
  <1>6. f \in Seq(1..MaxRows)
    BY <1>4, <1>5, IsASeq
  <1>7. Len(f) \in Nat
    BY <1>6, LenProperties
  <1> HIDE DEF f
  <1>8. row' \in 0..Len(rows')
    BY <1>1, <1>7
  <1>9. open' \in BOOLEAN
    BY <1>1
  <1> QED BY <1>1, <1>6, <1>8, <1>9, Anew, ResultClears

\* streamChunk from a stream, or from none.
LEMMA ChunkGoesOn ==
    ASSUME NEW q \in Pieces, NEW r \in 1..MaxRows, NEW text \in BOOLEAN, NEW n \in Nat
    PROVE  LET c == StreamChunk(q, r, text, n)
           IN  \/ c.got = -1 /\ c.piece = NoPiece
               \/ /\ c.got \in 0..(ValueLen - q.offset)
                  /\ c.piece.on = (IF q = NoPiece THEN r ELSE q.on) /\ c.piece.offset = q.offset + c.got
                  /\ c.piece \in Pieces
  <1> DEFINE s == IF q = NoPiece THEN [on |-> r, offset |-> 0] ELSE q
             capacity == IF text THEN n - 1 ELSE n
             left == ValueLen - s.offset
             copy == IF n = 0 THEN 0 ELSE IF capacity < left THEN capacity ELSE left
  <1>0. ValueLen \in Nat /\ MaxRows \in Nat
    BY StatementAssumption
  <1>1. s \in Pieces /\ s.offset = q.offset /\ s.on = IF q = NoPiece THEN r ELSE q.on
    BY <1>0 DEF Pieces, NoPiece
  <1>2. StreamChunk(q, r, text, n) =
            IF left = 0 THEN [piece |-> NoPiece, got |-> -1]
            ELSE [piece |-> [on |-> s.on, offset |-> s.offset + copy], got |-> copy]
    BY DEF StreamChunk
  <1>3. q.offset \in 0..ValueLen
    BY <1>0 DEF Pieces
  <1>4. left = ValueLen - q.offset
    BY <1>1
  <1>5. copy \in 0..(ValueLen - q.offset)
    BY <1>0, <1>3, <1>4
  <1> HIDE DEF copy, left, s
  <1>6. CASE left = 0
    BY <1>2, <1>6
  <1>7. CASE left # 0
    <2>1. StreamChunk(q, r, text, n) = [piece |-> [on |-> s.on, offset |-> q.offset + copy], got |-> copy]
      BY <1>1, <1>2, <1>7
    <2>2. s.on \in 0..MaxRows /\ q.offset + copy \in 0..ValueLen
      BY <1>0, <1>1, <1>3, <1>5 DEF Pieces
    <2>3. [on |-> s.on, offset |-> q.offset + copy] \in Pieces
      BY <2>2 DEF Pieces
    <2> QED BY <2>1, <2>3, <1>1, <1>5
  <1> QED BY <1>6, <1>7

\* bindResultData, on a cleared stream or on one carried from another row.
LEMMA BindKeepsShape ==
    ASSUME NEW q \in Pieces, NEW r \in 1..MaxRows, NEW carried \in BOOLEAN,
           q # NoPiece => carried, column \in Columns, BindResultData(q, r, carried)
    PROVE  /\ piece' \in Pieces /\ read' \in 0..ValueLen /\ lost' \in BOOLEAN
           /\ ~lost' => piece'.offset = read' /\ (piece' # NoPiece => piece'.on = r)
  <1>0. ValueLen \in Nat /\ MaxBuffer \in Nat /\ NoPiece.offset = 0
    BY StatementAssumption DEF NoPiece
  <1>1. CASE ~column.bound
    <2>1. piece' = q /\ lost' = carried /\ read' = 0
      BY <1>1 DEF BindResultData, Reading
    <2> QED BY <1>0, <2>1
  <1>2. CASE column.bound
    <2> DEFINE c == StreamChunk(q, r, TRUE, column.length)
    <2>1. /\ piece' = c.piece
          /\ Reading(IF c.got = -1 THEN 0 ELSE c.got, carried \/ MissedBytes(c, column.target))
      BY <1>2 DEF BindResultData
    <2>2. column.length \in Nat /\ column.target \in BOOLEAN
      BY <1>0 DEF Columns
    <2>3. \/ c.got = -1 /\ c.piece = NoPiece
          \/ /\ c.got \in 0..(ValueLen - q.offset)
             /\ c.piece.on = (IF q = NoPiece THEN r ELSE q.on) /\ c.piece.offset = q.offset + c.got
             /\ c.piece \in Pieces
      BY <2>2, ChunkGoesOn
    <2>4. q.offset \in 0..ValueLen
      BY <1>0 DEF Pieces
    <2> HIDE DEF c
    <2>5. CASE c.got = -1 /\ c.piece = NoPiece
      <3>1. NoPiece \in Pieces
        BY StatementAssumption DEF NoPiece, Pieces
      <3>2. piece' = NoPiece /\ read' = 0
        BY <2>1, <2>5 DEF Reading
      <3>3. lost' \in BOOLEAN
        BY <2>1, <2>2, <2>5 DEF Reading, MissedBytes
      <3> QED BY <1>0, <3>1, <3>2, <3>3
    <2>6. CASE /\ c.got \in 0..(ValueLen - q.offset)
               /\ c.piece.on = (IF q = NoPiece THEN r ELSE q.on) /\ c.piece.offset = q.offset + c.got
               /\ c.piece \in Pieces
      <3>1. c.got \in Nat /\ c.got <= ValueLen /\ c.got # -1
        BY <1>0, <2>4, <2>6
      <3>2. lost' \in BOOLEAN /\ read' \in {0, c.got} /\ (~lost' => ~carried /\ read' = c.got)
        BY <2>1, <2>2, <3>1 DEF Reading, MissedBytes
      <3>3. read' \in 0..ValueLen
        BY <1>0, <3>1, <3>2
      <3>4. ~lost' => piece'.offset = read' /\ piece'.on = r
        BY <1>0, <2>1, <2>6, <3>1, <3>2
      <3> QED BY <2>1, <2>6, <3>2, <3>3, <3>4
    <2> QED BY <2>3, <2>5, <2>6
  <1>3. column.bound \in BOOLEAN
    BY DEF Columns
  <1> QED BY <1>1, <1>2, <1>3

\* The cursor moves to a row, with a cleared stream or, as
\* SQL_FETCH_BY_BOOKMARK does, with the stream as it is.
LEMMA ResultMoves ==
    ASSUME ResultInv, NEW n \in 1..Len(rows), row' = n,
           NEW q \in Pieces, NEW carried \in BOOLEAN, q # NoPiece => carried,
           BindResultData(q, rows[n], carried), UNCHANGED <<sets, index, rows, open, scroll, column>>
    PROVE  ResultInv'
  <1> USE DEF ResultInv
  <1>1. rows \in Seq(1..MaxRows) /\ Len(rows) \in Nat /\ column \in Columns
    BY LenProperties DEF ResultTypes
  <1>2. rows[n] \in 1..MaxRows /\ n \in DOMAIN rows
    BY <1>1, ElementOfSeq, LenProperties
  <1>3. /\ piece' \in Pieces /\ read' \in 0..ValueLen /\ lost' \in BOOLEAN
        /\ ~lost' => piece'.offset = read' /\ (piece' # NoPiece => piece'.on = rows[n])
    BY <1>1, <1>2, BindKeepsShape
  <1>4. row' \in 0..Len(rows')
    BY <1>1
  <1>5. ResultTypes'
    BY <1>3, <1>4 DEF ResultTypes
  <1>6. PieceInStep'
    BY <1>2, <1>3 DEF PieceInStep
  <1> QED BY <1>5, <1>6

\* SQLGetData goes on in the stream, or starts one on the current row.
LEMMA ResultReads ==
    ASSUME ResultInv, NEW text \in BOOLEAN, NEW target \in BOOLEAN, NEW n \in 0..MaxBuffer,
           GetData(text, target, n)
    PROVE  ResultInv'
  <1> USE DEF ResultInv
  <1> DEFINE c == StreamChunk(piece, rows[row], text, n)
  <1>0. ValueLen \in Nat /\ n \in Nat
    BY StatementAssumption
  <1>1. rows \in Seq(1..MaxRows) /\ row \in DOMAIN rows
    BY DEF ResultTypes, GetData
  <1>2. rows[row] \in 1..MaxRows
    BY <1>1, ElementOfSeq, LenProperties
  <1>3. UNCHANGED <<sets, index, rows, row, open, scroll, column>>
    BY DEF GetData
  <1>4. /\ piece' = c.piece
        /\ IF c.got = -1 THEN StartsOver
           ELSE Reading(read + c.got, lost \/ MissedBytes(c, target))
    BY DEF GetData
  <1>5. piece \in Pieces /\ read \in 0..ValueLen /\ lost \in BOOLEAN
    BY DEF ResultTypes
  <1>6. \/ c.got = -1 /\ c.piece = NoPiece
        \/ /\ c.got \in 0..(ValueLen - piece.offset)
           /\ c.piece.on = (IF piece = NoPiece THEN rows[row] ELSE piece.on)
           /\ c.piece.offset = piece.offset + c.got
           /\ c.piece \in Pieces
    BY <1>0, <1>2, <1>5, ChunkGoesOn
  <1>7. piece.offset \in 0..ValueLen
    BY <1>5 DEF Pieces
  <1>8. ~lost => piece.offset = read /\ (piece # NoPiece => piece.on = rows[row])
    BY DEF PieceInStep
  <1> HIDE DEF c
  <1>9. CASE c.got = -1 /\ c.piece = NoPiece
    <2>1. piece' = NoPiece /\ read' = 0 /\ lost' = FALSE /\ NoPiece \in Pieces
      BY <1>4, <1>9, Anew, StatementAssumption DEF NoPiece, Pieces
    <2>a. read' \in 0..ValueLen /\ piece' \in Pieces
      BY <1>0, <2>1
    <2>b. lost' \in BOOLEAN
      BY <2>1, Zenon
    <2>2. ResultTypes'
      BY <1>3, <2>a, <2>b DEF ResultTypes
    <2>3. PieceInStep'
      BY <2>1 DEF PieceInStep, NoPiece
    <2> QED BY <2>2, <2>3
  <1>10. CASE /\ c.got \in 0..(ValueLen - piece.offset)
              /\ c.piece.on = (IF piece = NoPiece THEN rows[row] ELSE piece.on)
              /\ c.piece.offset = piece.offset + c.got
              /\ c.piece \in Pieces
    <2>1. c.got \in Nat /\ c.got # -1 /\ c.got <= ValueLen - piece.offset
      BY <1>0, <1>7, <1>10
    <2>2. lost' \in BOOLEAN /\ read' \in {0, read + c.got} /\ (~lost' => ~lost /\ read' = read + c.got)
          /\ (lost' => read' = 0)
      BY <1>4, <1>5, <2>1 DEF Reading, MissedBytes
    <2>3. read' \in 0..ValueLen
      <3>1. CASE lost'
        BY <1>0, <2>2, <3>1
      <3>2. CASE ~lost'
        BY <1>0, <1>7, <1>8, <2>1, <2>2, <3>2
      <3> QED BY <3>1, <3>2
    <2>4. ResultTypes'
      BY <1>3, <1>4, <1>10, <2>2, <2>3 DEF ResultTypes
    <2>5. ~lost' => piece'.offset = read' /\ piece'.on = rows[row]
      BY <1>4, <1>8, <1>10, <2>2
    <2>6. PieceInStep'
      BY <1>1, <1>3, <2>5 DEF PieceInStep
    <2> QED BY <2>4, <2>6
  <1> QED BY <1>6, <1>9, <1>10

\* executeSqlStatements, whether the batch fails or not.
LEMMA ResultExecutes ==
    ASSUME ResultInv, NEW b \in Batches, RunsSome(b), ExecuteSqlStatements(b), UNCHANGED <<scroll, column>>
    PROVE  ResultInv'
  <1>1. PICK m \in 0..MaxStatements : b.results \in [1..m -> Results]
    BY DEF Batches
  <1>2. b.results \in Seq(Results)
    BY <1>1, IsASeq, StatementAssumption
  <1>3. CASE b.fails
    <2>1. /\ sets' = b.results /\ index' = 0 /\ rows' = <<>> /\ row' = 0 /\ open' = FALSE
          /\ ClearGetDataState /\ StartsOver
      BY <1>3 DEF ExecuteSqlStatements
    <2>2. rows' \in Seq(1..MaxRows) /\ row' \in 0..Len(rows')
      BY <2>1, EmptySeq
    <2> QED BY <1>2, <2>1, <2>2, Anew, ResultClears
  <1>4. CASE ~b.fails
    <2>1. sets' = b.results /\ ApplyResultSet(b.results, 0) /\ b.results # <<>>
      BY <1>4 DEF ExecuteSqlStatements, RunsSome
    <2>2. 0 < Len(b.results)
      BY <1>2, <2>1, EmptySeq, LenProperties
    <2> QED BY <1>2, <2>1, <2>2, ResultApplies
  <1> QED BY <1>3, <1>4

-----------------------------------------------------------------------------
(* The calls.                                                              *)

\* Calls of one half leave the other half as it is.
LEMMA OtherHalf ==
    /\ ResultInv /\ UNCHANGED <<resultVars, scroll, column>> => ResultInv'
    /\ PutInv /\ UNCHANGED putVars => PutInv'
  <1>1. ResultInv => scroll \in BOOLEAN /\ column \in Columns
    BY DEF ResultInv, ResultTypes
  <1>2. ASSUME ResultInv, UNCHANGED <<resultVars, scroll, column>> PROVE ResultInv'
    <2>1. UNCHANGED resultVars /\ scroll' = scroll /\ column' = column
      BY <1>2
    <2>2. scroll' \in BOOLEAN /\ column' \in Columns
      BY <1>1, <1>2, <2>1
    <2> QED BY <1>2, <2>1, <2>2, ResultStutter
  <1> QED BY <1>2, PutStutter

\* The calls about parameters and their data.
LEMMA PutCalls ==
    ASSUME StatementInv,
           \/ Prepare \/ ResetParams \/ ParamData \/ Cancel \/ ExecuteNeedsData
           \/ BulkNeedsData \/ BulkExecutes \/ BulkRefused
           \/ \E p \in Params, i \in Indicators : BindParameter(p, i)
           \/ \E k \in Keys, i \in Indicators : SetIndicator(k, i)
           \/ \E n \in 1..MaxParamset : SetParamset(n)
           \/ \E n \in 0..(MaxLen + 1) : PutData(n)
    PROVE  StatementInv'
  <1> USE DEF StatementInv
  <1>0. /\ prepared \in BOOLEAN /\ bound \in SUBSET Params /\ ind \in [Keys -> Indicators]
        /\ paramset \in 1..MaxParamset /\ cancelled \in BOOLEAN /\ old \in SUBSET Keys
        /\ sent \in [stale: BOOLEAN, short: BOOLEAN, cancelled: BOOLEAN] /\ ExecutesWhatWasPut
    BY DEF PutInv, PutTypes
  <1>a. sent' = sent => ExecutesWhatWasPut'
    BY <1>0 DEF ExecutesWhatWasPut
  <1>b. 0 \in 0..(MaxParamset - 1)
    BY StatementAssumption
  <1>1. CASE Prepare
    <2>1. PutInv'
      BY <1>0, <1>1, <1>a, PutClears DEF Prepare
    <2> QED BY <1>1, <2>1, OtherHalf DEF Prepare
  <1>2. CASE ResetParams
    <2>1. bound' \in SUBSET Params /\ ind' \in [Keys -> Indicators]
      BY <1>2 DEF ResetParams, Indicators
    <2>2. PutInv'
      BY <1>0, <1>2, <1>a, <2>1, PutClears DEF ResetParams
    <2> QED BY <1>2, <2>2, OtherHalf DEF ResetParams
  <1>3. CASE ParamData
    <2>1. CASE NeedData(0)
      BY <1>3, <1>b, <2>1, PutWaits, OtherHalf DEF ParamData
    <2>2. CASE dae' = Idle /\ UNCHANGED streams
      <3>1. UNCHANGED <<prepared, bound, ind, paramset, streams, old, sent, cancelled>> /\ dae' = Idle
        BY <1>3, <2>2 DEF ParamData
      <3>2. Idle \in [active: BOOLEAN, params: SUBSET Params, row: 0..(MaxParamset - 1)]
        BY StatementAssumption DEF Idle
      <3>3. PutTypes'
        BY <3>1, <3>2 DEF PutInv, PutTypes
      <3>4. WaitOpen'
        BY <3>1 DEF WaitOpen, Idle
      <3>5. CompleteIsLong'
        BY <3>1 DEF PutInv, CompleteIsLong
      <3>6. OldAfterCancel'
        BY <3>1 DEF PutInv, OldAfterCancel
      <3>7. PutInv'
        BY <1>a, <3>1, <3>3, <3>4, <3>5, <3>6 DEF PutInv
      <3> QED BY <1>3, <3>7, OtherHalf DEF ParamData
    <2> QED BY <1>3, <2>1, <2>2 DEF ParamData
  <1>4. CASE Cancel
    <2>1. old' \in SUBSET Keys /\ cancelled' = TRUE /\ UNCHANGED <<prepared, bound, ind, paramset, dae, streams, sent>>
      BY <1>4 DEF Cancel
    <2>2. OldAfterCancel'
      BY <2>1 DEF OldAfterCancel
    <2>3. PutInv'
      BY <1>0, <2>1, <2>2, PutKeeps
    <2> QED BY <1>4, <2>3, OtherHalf DEF Cancel
  <1>5. CASE ExecuteNeedsData
    BY <1>5, <1>b, PutWaits, OtherHalf DEF ExecuteNeedsData
  <1>6. CASE BulkNeedsData
    <2>1. PICK r \in 0..(paramset - 1) : NeedData(r)
      BY <1>6 DEF BulkNeedsData
    <2>2. r \in 0..(MaxParamset - 1)
      BY <1>0, StatementAssumption
    <2> QED BY <1>6, <2>1, <2>2, PutWaits, OtherHalf DEF BulkNeedsData
  <1>7. CASE BulkExecutes
    <2>1. 0..(paramset - 1) \subseteq 0..(MaxParamset - 1)
      BY <1>0, StatementAssumption
    <2>2. \A r \in 0..(paramset - 1) : Pending(r) \cap Built = {}
      BY <1>7 DEF BulkExecutes
    <2>3. Sends(0..(paramset - 1)) /\ prepared
      BY <1>7 DEF BulkExecutes
    <2>4. sent' \in [stale: BOOLEAN, short: BOOLEAN, cancelled: BOOLEAN] /\ ExecutesWhatWasPut'
      BY <2>1, <2>2, <2>3, PutSends
    <2>5. PutInv'
      BY <1>0, <1>7, <2>4, PutClears DEF BulkExecutes
    <2> QED BY <1>7, <2>5, OtherHalf DEF BulkExecutes
  <1>8. CASE BulkRefused
    <2>1. PutInv'
      BY <1>0, <1>8, <1>a, PutClears DEF BulkRefused
    <2> QED BY <1>8, <2>1, OtherHalf DEF BulkRefused
  <1>9. ASSUME NEW p \in Params, NEW i \in Indicators, BindParameter(p, i) PROVE StatementInv'
    <2>1. bound' \in SUBSET Params /\ ind' \in [Keys -> Indicators]
      BY <1>0, <1>9 DEF BindParameter
    <2>2. PutInv'
      BY <1>0, <1>9, <1>a, <2>1, PutClears DEF BindParameter
    <2> QED BY <1>9, <2>2, OtherHalf DEF BindParameter
  <1>c. UNCHANGED <<prepared, old, cancelled>> => OldAfterCancel'
    BY DEF PutInv, OldAfterCancel
  <1>10. ASSUME NEW n \in 1..MaxParamset, SetParamset(n) PROVE StatementInv'
    <2>1. UNCHANGED <<prepared, bound, ind, dae, streams, old, sent, cancelled>> /\ paramset' = n
      BY <1>10 DEF SetParamset
    <2>2. PutInv'
      BY <1>0, <1>c, <2>1, PutKeeps
    <2> QED BY <1>10, <2>2, OtherHalf DEF SetParamset
  <1>11. ASSUME NEW n \in 0..(MaxLen + 1), PutData(n) PROVE StatementInv'
    BY <1>11, PutPiece, OtherHalf DEF PutData
  <1>12. ASSUME NEW k \in Keys, NEW i \in Indicators, SetIndicator(k, i) PROVE StatementInv'
    <2>1. UNCHANGED <<prepared, bound, paramset, dae, streams, old, sent, cancelled>> /\ ind' = [ind EXCEPT ![k] = i]
      BY <1>12 DEF SetIndicator
    <2>2. ind' \in [Keys -> Indicators]
      BY <1>0, <2>1
    <2>3. PutInv'
      BY <1>0, <1>c, <2>1, <2>2, PutKeeps
    <2> QED BY <1>12, <2>3, OtherHalf DEF SetIndicator
  <1> QED BY <1>1, <1>2, <1>3, <1>4, <1>5, <1>6, <1>7, <1>8, <1>9, <1>10, <1>11, <1>12

\* The calls about results, among them the executions, which touch both.
LEMMA ResultCalls ==
    ASSUME StatementInv,
           \/ MoreResults \/ CloseCursor \/ Fetch \/ SetPosInvalid \/ SetPosDeleteAll \/ Unbind
           \/ \E b \in Batches : Execute(b) \/ ExecDirect(b)
           \/ \E n \in 0..MaxRows : CatalogResult(n)
           \/ \E n \in 1..MaxRows : \/ FetchScroll(n) \/ SetPosition(n) \/ SetPosRefresh(n)
                                    \/ SetPosDelete(n) \/ FetchByBookmark(n)
           \/ \E n \in 0..MaxBuffer, target \in BOOLEAN :
                 BindCol(target, n) \/ \E text \in BOOLEAN : GetData(text, target, n)
    PROVE  StatementInv'
  <1> USE DEF StatementInv
  <1>0. /\ prepared \in BOOLEAN /\ bound \in SUBSET Params /\ ind \in [Keys -> Indicators]
        /\ paramset \in 1..MaxParamset /\ cancelled \in BOOLEAN /\ old \in SUBSET Keys
        /\ sent \in [stale: BOOLEAN, short: BOOLEAN, cancelled: BOOLEAN] /\ ExecutesWhatWasPut
    BY DEF PutInv, PutTypes
  <1>a. sent' = sent => ExecutesWhatWasPut'
    BY <1>0 DEF ExecutesWhatWasPut
  <1>b. /\ open \in BOOLEAN /\ sets \in Seq(Results) /\ index \in Nat
        /\ rows \in Seq(1..MaxRows) /\ row \in 0..Len(rows) /\ (open => index < Len(sets))
    BY DEF ResultInv, ResultTypes
  <1>c. Len(rows) \in Nat /\ DOMAIN rows = 1..Len(rows)
    BY <1>b, LenProperties
  <1>d. <<>> \in Seq(1..MaxRows) /\ <<>> \in Seq(Results) /\ Len(<<>>) = 0
    BY EmptySeq
  <1>e. NoPiece \in Pieces /\ FALSE \in BOOLEAN
    BY StatementAssumption DEF NoPiece, Pieces
  <1>1. CASE MoreResults
    <2>1. index + 1 \in Nat /\ index + 1 < Len(sets) /\ ApplyResultSet(sets, index + 1)
          /\ sets' = sets /\ UNCHANGED <<scroll, column>>
      BY <1>1, <1>b DEF MoreResults
    <2>2. ResultInv'
      BY <1>b, <2>1, ResultApplies
    <2> QED BY <1>1, <2>2, OtherHalf DEF MoreResults
  <1>2. CASE CloseCursor
    <2>0. /\ sets' = <<>> /\ index' = 0 /\ rows' = <<>> /\ row' = 0 /\ open' = FALSE
          /\ ClearGetDataState /\ StartsOver /\ UNCHANGED <<scroll, column>>
      BY <1>2 DEF CloseCursor, ResetResults
    <2>a. sets' \in Seq(Results) /\ rows' \in Seq(1..MaxRows) /\ row' \in 0..Len(rows')
      BY <1>d, <2>0
    <2>1. ResultInv'
      BY <2>0, <2>a, Anew, ResultClears
    <2> QED BY <1>2, <2>1, OtherHalf DEF CloseCursor
  <1>3. CASE Fetch
    <2>1. row + 1 \in 1..Len(rows)
      BY <1>3, <1>b, <1>c DEF Fetch
    <2>2. ResultInv'
      BY <1>3, <1>e, <2>1, ResultMoves DEF Fetch, MoveTo
    <2> QED BY <1>3, <2>2, OtherHalf DEF Fetch
  <1>4. CASE SetPosInvalid
    <2>0. read' = 0 /\ lost' \in BOOLEAN
      BY <1>4 DEF SetPosInvalid, Reading, ResultInv, ResultTypes
    <2>1. ResultInv'
      BY <1>4, <1>b, <2>0, ResultClears DEF SetPosInvalid
    <2> QED BY <1>4, <2>1, OtherHalf DEF SetPosInvalid
  <1>5. CASE SetPosDeleteAll
    <2>0. /\ UNCHANGED <<sets, index, open, scroll, column>> /\ rows' = <<>> /\ row' = 0
          /\ ClearGetDataState /\ read' = 0 /\ lost' = FALSE
      BY <1>5, Anew DEF SetPosDeleteAll
    <2>a. rows' \in Seq(1..MaxRows) /\ row' \in 0..Len(rows')
      BY <1>d, <2>0
    <2>b. lost' \in BOOLEAN
      BY <2>0, Zenon
    <2>1. ResultInv'
      BY <1>b, <2>0, <2>a, <2>b, ResultClears
    <2> QED BY <1>5, <2>1, OtherHalf DEF SetPosDeleteAll
  <1>6. ASSUME NEW b \in Batches, Execute(b) PROVE StatementInv'
    <2>1. {0} \subseteq 0..(MaxParamset - 1) /\ (\A r \in {0} : Pending(r) \cap Built = {}) /\ prepared
      BY <1>6, StatementAssumption DEF Execute
    <2>2. sent' \in [stale: BOOLEAN, short: BOOLEAN, cancelled: BOOLEAN] /\ ExecutesWhatWasPut'
      BY <1>6, <2>1, PutSends DEF Execute
    <2>3. PutInv'
      BY <1>0, <1>6, <2>2, PutClears DEF Execute
    <2>4. ResultInv'
      BY <1>6, ResultExecutes DEF Execute
    <2> QED BY <2>3, <2>4
  <1>7. ASSUME NEW b \in Batches, ExecDirect(b) PROVE StatementInv'
    <2>1. prepared' \in BOOLEAN
      BY <1>7 DEF ExecDirect
    <2>2. PutInv'
      BY <1>0, <1>7, <1>a, <2>1, PutClears DEF ExecDirect
    <2>3. ResultInv'
      BY <1>7, ResultExecutes DEF ExecDirect
    <2> QED BY <2>2, <2>3
  <1>8. ASSUME NEW n \in 0..MaxRows, CatalogResult(n) PROVE StatementInv'
    <2>0. n \in Results
      BY StatementAssumption DEF Results
    <2>1. <<n>> \in Seq(Results) /\ Len(<<n>>) = 1
      BY <2>0
    <2>2. ResultInv'
      <3> DEFINE b == <<n>>
      <3>1. sets' = b /\ ApplyResultSet(b, 0) /\ UNCHANGED <<scroll, column>>
        BY <1>8 DEF CatalogResult
      <3>2. b \in Seq(Results) /\ 0 < Len(b)
        BY <2>1
      <3> HIDE DEF b
      <3> QED BY <3>1, <3>2, ResultApplies
    <2>3. UNCHANGED <<bound, ind, paramset, dae, streams, sent>> /\ prepared' = FALSE
          /\ old' \in SUBSET Keys /\ cancelled' = FALSE
      BY <1>8 DEF CatalogResult, Ended
    <2>4. OldAfterCancel'
      BY <2>3 DEF OldAfterCancel
    <2>5. PutInv'
      BY <1>0, <2>3, <2>4, PutKeeps
    <2> QED BY <2>2, <2>5
  <1>9. ASSUME NEW n \in 1..MaxRows, FetchScroll(n) \/ SetPosRefresh(n) PROVE StatementInv'
    <2>1. n \in 1..Len(rows) /\ MoveTo(n) /\ UNCHANGED <<sets, index, rows, open, putVars, scroll, column>>
      BY <1>9, <1>c DEF FetchScroll, SetPosRefresh
    <2> QED BY <1>e, <2>1, ResultMoves, OtherHalf DEF MoveTo
  <1>10. ASSUME NEW n \in 1..MaxRows, SetPosition(n) PROVE StatementInv'
    <2>1. row' \in 0..Len(rows)
      BY <1>10, <1>c DEF SetPosition
    <2>2. ResultInv'
      BY <1>10, <1>b, <2>1, Anew, ResultClears DEF SetPosition
    <2> QED BY <1>10, <2>2, OtherHalf DEF SetPosition
  <1>11. ASSUME NEW n \in 1..MaxRows, SetPosDelete(n) PROVE StatementInv'
    <2>1. n \in 1..Len(rows) /\ rows' = RemoveAt(rows, n) /\ UNCHANGED <<sets, index, open, scroll, column>>
          /\ row' = (IF n > Len(rows) - 1 THEN Len(rows) - 1 ELSE n) /\ ClearGetDataState /\ StartsOver
      BY <1>11, <1>c DEF SetPosDelete
    <2>2. rows' \in Seq(1..MaxRows) /\ Len(rows') = Len(rows) - 1
      BY <1>b, <2>1, RemoveOneRow
    <2>3. row' \in 0..Len(rows')
      BY <1>c, <2>1, <2>2
    <2>4. ResultInv'
      BY <1>b, <2>1, <2>2, <2>3, Anew, ResultClears
    <2> QED BY <1>11, <2>4, OtherHalf DEF SetPosDelete
  <1>12. ASSUME NEW n \in 1..MaxRows, FetchByBookmark(n) PROVE StatementInv'
    <2>1. PutInv'
      BY <1>0, <1>12, <1>a, PutClears DEF FetchByBookmark
    <2>2. /\ n \in 1..Len(rows) /\ row' = n /\ BindResultData(piece, rows[n], piece # NoPiece)
          /\ UNCHANGED <<sets, index, rows, open, scroll, column>>
      BY <1>12, <1>c DEF FetchByBookmark
    <2>3. PICK carried \in BOOLEAN : carried <=> piece # NoPiece
      OBVIOUS
    <2>4. piece \in Pieces /\ BindResultData(piece, rows[n], carried)
      BY <2>2, <2>3 DEF ResultInv, ResultTypes
    <2>5. ResultInv'
      BY <2>2, <2>3, <2>4, ResultMoves
    <2> QED BY <2>1, <2>5
  <1>13. ASSUME NEW n \in 0..MaxBuffer, NEW target \in BOOLEAN, BindCol(target, n) PROVE StatementInv'
    <2>1. scroll' \in BOOLEAN /\ column' \in Columns /\ UNCHANGED resultVars
      BY <1>13 DEF BindCol, ResultInv, ResultTypes, Columns
    <2> QED BY <1>13, <2>1, ResultStutter, OtherHalf DEF BindCol
  <1>14. ASSUME NEW n \in 0..MaxBuffer, NEW text \in BOOLEAN, NEW target \in BOOLEAN, GetData(text, target, n)
         PROVE  StatementInv'
    BY <1>14, ResultReads, OtherHalf DEF GetData
  <1>15. CASE Unbind
    <2>1. scroll' \in BOOLEAN /\ column' \in Columns /\ UNCHANGED resultVars
      BY <1>15, StatementAssumption DEF Unbind, NoColumn, ResultInv, ResultTypes, Columns
    <2> QED BY <1>15, <2>1, ResultStutter, OtherHalf DEF Unbind
  <1> QED BY <1>1, <1>2, <1>3, <1>4, <1>5, <1>6, <1>7, <1>8, <1>9, <1>10, <1>11, <1>12, <1>13, <1>14, <1>15

\* Every call, in any order, preserves the inductive invariant.
LEMMA StatementInductive == Spec => []StatementInv
  <1>1. Init => StatementInv
    BY PutStart, ResultStart DEF StatementInv
  <1>2. StatementInv /\ [Next]_vars => StatementInv'
    <2>1. ASSUME StatementInv, Next PROVE StatementInv'
      BY <2>1, PutCalls, ResultCalls DEF Next
    <2>2. ASSUME StatementInv, UNCHANGED vars PROVE StatementInv'
      BY <2>2, OtherHalf DEF vars, StatementInv
    <2> QED BY <2>1, <2>2
  <1> QED BY <1>1, <1>2, PTL DEF Spec

-----------------------------------------------------------------------------
(* The theorems.                                                           *)

\* Types, with the cursor on a row of the current result set or before the
\* first whatever SQLSetPos deletes, and an open cursor inside result_sets_.
THEOREM StatementTypeCorrect == Spec => []TypeOK
  <1>1. StatementInv => TypeOK
    BY HalvesGiveTypes DEF StatementInv, PutInv, ResultInv
  <1> QED BY <1>1, StatementInductive, PTL

\* A statement that returned SQL_NEED_DATA always has a parameter that
\* SQLPutData can get on with, whatever calls come between and whatever the
\* application writes to its indicators.
THEOREM WaitsAreAnswerable == Spec => []NeedDataAnswerable
  <1>1. StatementInv => NeedDataAnswerable
    <2> SUFFICES ASSUME StatementInv, dae.active
                 PROVE  /\ CurrentParam \in bound
                        /\ streams[<<CurrentParam, dae.row>>].at = "open"
      BY DEF NeedDataAnswerable
    <2>1. dae.params \subseteq Params /\ dae.params # {}
      BY DEF StatementInv, PutInv, PutTypes, WaitOpen
    <2>2. CurrentParam \in dae.params /\ CurrentParam # 0
      BY <2>1, CurrentIsPending
    <2> QED BY <2>2 DEF StatementInv, PutInv, WaitOpen
  <1> QED BY <1>1, StatementInductive, PTL

\* SQLExecute and SQLBulkOperations send complete values, of bytes put for
\* this execution unless SQLCancel left some.
THEOREM SendsWhatWasPut == Spec => []ExecutesWhatWasPut
  <1>1. StatementInv => ExecutesWhatWasPut
    BY DEF StatementInv, PutInv
  <1> QED BY <1>1, StatementInductive, PTL

\* SQLGetData goes on in the current row, where the application is, unless
\* bytes went to a NULL target, SQL_FETCH_BY_BOOKMARK carried a stream along
\* or a failed SQLSetPos dropped it.
THEOREM ReadsInStep == Spec => []PieceInStep
  <1>1. StatementInv => PieceInStep
    BY DEF StatementInv, ResultInv
  <1> QED BY <1>1, StatementInductive, PTL

=============================================================================
