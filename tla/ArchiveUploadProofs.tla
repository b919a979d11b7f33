------------------------ MODULE ArchiveUploadProofs ------------------------
(***************************************************************************)
(* Proofs about ArchiveUpload.                                             *)
(***************************************************************************)
EXTENDS ArchiveUpload, SequenceTheorems, TLAPS

USE ParametersAssumption DEF Stream, Id, Readings, Row, archive, isolation, freezing

LEMMA BatchEndBounds ==
  ASSUME RowsTyped, DrainTyped, BatchesRead, NEW s \in Stream
  PROVE  /\ BatchEnd(s) \in 0..MaxRows
         /\ cursor[s] <= BatchEnd(s) /\ BatchEnd(s) <= archived[s]
         /\ cursor[s] < archived[s] => cursor[s] < BatchEnd(s)
<1>1. batch \in Nat /\ batch > 0
  BY DEF DrainTyped
<1>2. archived[s] \in 0..MaxRows /\ cursor[s] \in 0..MaxRows /\ cursor[s] <= archived[s]
  BY DEF RowsTyped, BatchesRead
<1>3. CASE archived[s] < cursor[s] + batch
  BY <1>1, <1>2, <1>3 DEF BatchEnd, Least
<1>4. CASE ~(archived[s] < cursor[s] + batch)
  BY <1>1, <1>2, <1>4 DEF BatchEnd, Least
<1>5. QED
  BY <1>3, <1>4

LEMMA BatchRows ==
  ASSUME RowsTyped, NEW s \in Stream
  PROVE  Batch(s) \subseteq Row
BY DEF RowsTyped, Batch, RowsOf

LEMMA BatchOfAllRows ==
  ASSUME RowsTyped
  PROVE  BatchOfAll \subseteq Row
BY BatchRows DEF BatchOfAll

LEMMA SegmentHead ==
  ASSUME IsolationTyped, SegmentsOrdered, ends # <<>>
  PROVE  /\ ends \in Seq(0..MaxRows) /\ Len(ends) \in Nat /\ Len(ends) > 0
         /\ asked \in 0..MaxRows /\ ends[1] \in 0..MaxRows /\ asked < ends[1]
         /\ Tail(ends) \in Seq(0..MaxRows) /\ Len(Tail(ends)) = Len(ends) - 1
         /\ \A k \in 1..(Len(ends) - 1) : Tail(ends)[k] = ends[k + 1]
BY DEF IsolationTyped, SegmentsOrdered

LEMMA SegmentRows ==
  ASSUME IsolationTyped, SegmentsOrdered, ends # <<>>, at \in Stream
  PROVE  Segment \subseteq Row
<1>1. ends[1] \in 0..MaxRows /\ asked \in 0..MaxRows
  BY SegmentHead DEF IsolationTyped
<1>2. QED
  BY <1>1 DEF Segment, RowsOf

LEMMA ReadingIdsTyped ==
  ASSUME NEW R
  PROVE  ReadingIds(R) \subseteq Id
BY DEF ReadingIds

LEMMA StoredTyped ==
  ASSUME NEW R \in SUBSET Row, Stored(R)
  PROVE  /\ cloud \subseteq Row => cloud' \subseteq Row
         /\ marked \subseteq Id => marked' \subseteq Id
BY ReadingIdsTyped DEF Stored

LEMMA MiddleBounds ==
  ASSUME IsolationTyped, SegmentsOrdered, ends # <<>>, SegmentSize # 1
  PROVE  LET mid == asked + ((SegmentSize + 1) \div 2) IN
         mid \in 0..MaxRows /\ asked < mid /\ mid < ends[1]
<1>1. ends[1] \in 0..MaxRows /\ asked \in 0..MaxRows /\ asked < ends[1]
  BY SegmentHead DEF IsolationTyped
<1>2. SegmentSize \in Nat /\ SegmentSize > 1 /\ asked + SegmentSize = ends[1]
  BY <1>1 DEF SegmentSize
<1>3. (SegmentSize + 1) \div 2 \in Nat /\ 0 < (SegmentSize + 1) \div 2 /\ (SegmentSize + 1) \div 2 < SegmentSize
  BY <1>2
<1>4. QED
  BY <1>1, <1>2, <1>3

LEMMA LastSegment ==
  ASSUME IsolationTyped, SegmentsOrdered, ends # <<>>
  PROVE  ends[1] <= ends[Len(ends)] /\ (Len(ends) = 1 <=> Tail(ends) = <<>>)
<1>1. Len(ends) \in Nat /\ Len(ends) > 0 /\ 1 \in 1..Len(ends) /\ Len(ends) \in 1..Len(ends)
  BY DEF IsolationTyped
<1>2. ends[1] \in 0..MaxRows /\ ends[Len(ends)] \in 0..MaxRows
  BY <1>1 DEF IsolationTyped
<1>3. ends[1] <= ends[Len(ends)]
  BY <1>1, <1>2 DEF SegmentsOrdered
<1>4. Len(ends) = 1 <=> Len(Tail(ends)) = 0
  BY <1>1, SegmentHead
<1>5. QED
  BY <1>3, <1>4, SegmentHead, EmptySeq

LEMMA AfterHead ==
  ASSUME SegmentsOrdered, ends # <<>>, IsolationTyped
  PROVE  \A k \in 1..Len(Tail(ends)) :
           /\ ends[1] < Tail(ends)[k]
           /\ \A j \in 1..Len(Tail(ends)) : j < k => Tail(ends)[j] < Tail(ends)[k]
<1>1. /\ Len(ends) \in Nat /\ Len(ends) > 0 /\ Len(Tail(ends)) = Len(ends) - 1
      /\ \A k \in 1..(Len(ends) - 1) : Tail(ends)[k] = ends[k + 1]
  BY SegmentHead DEF IsolationTyped
<1>2. \A k \in 1..Len(Tail(ends)) : k + 1 \in 1..Len(ends) /\ 1 \in 1..Len(ends) /\ 1 < k + 1
  BY <1>1
<1>3. QED
  BY <1>1, <1>2 DEF SegmentsOrdered

LEMMA AgainTyped ==
  ASSUME FreezesTyped
  PROVE  AgainRows \subseteq Row
BY DEF FreezesTyped, AgainRows

LEMMA RowsStep ==
  ASSUME IInv, [Next]_vars
  PROVE  RowsTyped'
<1> USE DEF IInv, TypeOK, RowsTyped, DrainTyped, IsolationTyped, FreezesTyped
<1>1. ASSUME NEW T \in SUBSET Stream, Archive(T) PROVE RowsTyped'
  <2>1. \A s \in Stream : (IF s \in T THEN archived[s] + 1 ELSE archived[s]) \in 0..MaxRows
    BY <1>1 DEF Archive
  <2>2. archived' \in [Stream -> 0..MaxRows]
    BY <1>1, <2>1 DEF Archive
  <2>3. QED
    BY <1>1, <2>2 DEF Archive
<1>2. ASSUME NEW F \in SUBSET Id, Flag(F) PROVE RowsTyped'
  BY <1>2 DEF Flag, Uploaded, InFlight, ReadingIds, Batch, RowsOf
<1>3. ASSUME NEW s \in Stream, TableTurns(s) PROVE RowsTyped'
  BY <1>3 DEF TableTurns
<1>4. CASE AskAll
  <2>1. upto' \in [Stream -> 0..MaxRows]
    BY <1>4, BatchEndBounds DEF AskAll
  <2>2. QED
    BY <1>4, <2>1 DEF AskAll
<1>5. CASE AllStored
  <2>1. cloud' \subseteq Row
    BY <1>5, BatchOfAllRows, StoredTyped DEF AllStored
  <2>2. QED
    BY <1>5, <2>1 DEF AllStored
<1>6. CASE Advance
  BY <1>6 DEF Advance
<1>7. CASE AllRefused
  BY <1>7 DEF AllRefused
<1>8. CASE AskStream
  <2>1. upto' \in [Stream -> 0..MaxRows]
    BY <1>8, BatchEndBounds DEF AskStream
  <2>2. QED
    BY <1>8, <2>1 DEF AskStream
<1>9. CASE StreamStored
  <2>1. cloud' \subseteq Row
    BY <1>9, BatchRows, StoredTyped DEF StreamStored
  <2>2. cursor' \in [Stream -> 0..MaxRows]
    BY <1>9 DEF StreamStored
  <2>3. QED
    BY <1>9, <2>1, <2>2 DEF StreamStored
<1>10. CASE StreamRefused
  BY <1>10 DEF StreamRefused
<1>11. CASE SegmentStored
  <2>1. cloud' \subseteq Row
    BY <1>11, SegmentRows, StoredTyped DEF SegmentStored, Asking
  <2>2. QED
    BY <1>11, <2>1 DEF SegmentStored
<1>12. CASE SegmentHalved
  BY <1>12 DEF SegmentHalved, Asking, SegmentSize
<1>13. CASE TableBlamed
  BY <1>13 DEF TableBlamed, Asking, NextStream
<1>14. CASE IsolationVain
  BY <1>14 DEF IsolationVain, NextStream
<1>15. CASE IsolationDone
  BY <1>15 DEF IsolationDone
<1>16. CASE SetAside
  <2>1. PICK i \in failed : rejects' = rejects \cup {<<at, i>>}
    BY <1>16 DEF SetAside
  <2>2. rejects' \subseteq Row
    BY <1>16, <2>1 DEF SetAside
  <2>3. QED
    BY <1>16, <2>2 DEF SetAside
<1>17. CASE Pass
  BY <1>17 DEF Pass
<1>18. CASE Finish
  BY <1>18 DEF Finish, Least
<1>19. CASE ResendStored
  <2>1. cloud' \subseteq Row
    BY <1>19, AgainTyped DEF ResendStored
  <2>2. QED
    BY <1>19, <2>1 DEF ResendStored
<1>20. CASE ResendRefused
  BY <1>20 DEF ResendRefused, PutBack
<1>21. CASE AnswerLost
  <2>1. CASE UNCHANGED cloud
    BY <1>21, <2>1 DEF AnswerLost
  <2>2. CASE \E R \in SUBSET Row : Stored(R)
    BY <1>21, <2>2, StoredTyped DEF AnswerLost
  <2>3. QED
    BY <1>21, <2>1, <2>2, BatchOfAllRows, BatchRows, SegmentRows DEF AnswerLost, Asking
<1>22. CASE BudgetSpent
  BY <1>22 DEF BudgetSpent
<1>23. CASE ResendFailed
  <2>1. cloud' \subseteq Row
    BY <1>23, AgainTyped DEF ResendFailed
  <2>2. QED
    BY <1>23, <2>1 DEF ResendFailed, PutBack
<1>24. CASE Start
  BY <1>24 DEF Start
<1>25. CASE Restart
  BY <1>25 DEF Restart
<1>26. CASE UNCHANGED vars
  BY <1>26 DEF vars
<1>27. QED
  BY <1>1, <1>2, <1>3, <1>4, <1>5, <1>6, <1>7, <1>8, <1>9, <1>10, <1>11, <1>12, <1>13, <1>14, <1>15, <1>16, <1>17, <1>18, <1>19, <1>20, <1>21, <1>22, <1>23, <1>24, <1>25, <1>26 DEF Next, DrainStep, Fault

LEMMA DrainTypedStep ==
  ASSUME IInv, [Next]_vars
  PROVE  DrainTyped'
<1> USE DEF IInv, TypeOK, DrainTyped, RowsTyped, Phase
<1>1. ASSUME NEW T \in SUBSET Stream, Archive(T) PROVE DrainTyped'
  BY <1>1 DEF Archive
<1>2. ASSUME NEW F \in SUBSET Id, Flag(F) PROVE DrainTyped'
  BY <1>2 DEF Flag, Uploaded, InFlight, ReadingIds, Batch, RowsOf
<1>3. ASSUME NEW s \in Stream, TableTurns(s) PROVE DrainTyped'
  BY <1>3 DEF TableTurns
<1>4. CASE AskAll
  BY <1>4 DEF AskAll, BatchEnd, Least
<1>5. CASE AllStored
  BY <1>5 DEF AllStored, Stored, BatchOfAll, Batch, RowsOf, ReadingIds
<1>6. CASE Advance
  <2>1. at \in Stream /\ at' \in 1..(NStreams + 1)
    BY <1>6 DEF Advance
  <2>2. phase' \in {"advancing", "all"} /\ (phase' = "advancing" => at' \in Stream)
    BY <1>6 DEF Advance
  <2>3. QED
    BY <1>6, <2>1, <2>2 DEF Advance
<1>7. CASE AllRefused
  BY <1>7 DEF AllRefused
<1>8. CASE AskStream
  <2>1. at \in Stream /\ at' \in {at, at + 1} /\ phase' \in {"sent", "stream"}
    BY <1>8, ParametersAssumption DEF AskStream, Stream
  <2>2. at' \in 1..(NStreams + 1) /\ (phase' = "sent" => at' \in Stream)
    BY <1>8, <2>1, ParametersAssumption DEF AskStream, Stream
  <2>3. UNCHANGED <<erred, batch, crashes>>
    BY <1>8 DEF AskStream
  <2>4. QED
    BY <2>1, <2>2, <2>3
<1>9. CASE StreamStored
  BY <1>9 DEF StreamStored, Stored, Batch, RowsOf, ReadingIds
<1>10. CASE StreamRefused
  BY <1>10 DEF StreamRefused
<1>11. CASE SegmentStored
  BY <1>11 DEF SegmentStored, Asking, Segment, SegmentSize, Stored, RowsOf, ReadingIds
<1>12. CASE SegmentHalved
  BY <1>12 DEF SegmentHalved, Asking, SegmentSize
<1>13. CASE TableBlamed
  BY <1>13 DEF TableBlamed, Asking, NextStream
<1>14. CASE IsolationVain
  BY <1>14 DEF IsolationVain, NextStream
<1>15. CASE IsolationDone
  BY <1>15 DEF IsolationDone
<1>16. CASE SetAside
  BY <1>16 DEF SetAside
<1>17. CASE Pass
  BY <1>17 DEF Pass
<1>18. CASE Finish
  BY <1>18 DEF Finish, Least
<1>19. CASE ResendStored
  BY <1>19 DEF ResendStored, AgainRows
<1>20. CASE ResendRefused
  BY <1>20 DEF ResendRefused, PutBack
<1>21. CASE AnswerLost
  BY <1>21 DEF AnswerLost, Asking, Stored, BatchOfAll, Batch, Segment, RowsOf, ReadingIds, Larger
<1>22. CASE BudgetSpent
  BY <1>22 DEF BudgetSpent
<1>23. CASE ResendFailed
  BY <1>23 DEF ResendFailed, PutBack, AgainRows
<1>24. CASE Start
  <2>1. phase' \in Phase /\ phase' \notin {"advancing", "sent", "isolating", "settingAside"}
    BY <1>24 DEF Start
  <2>2. at' \in 1..(NStreams + 1)
    BY <1>24 DEF Start
  <2>3. QED
    BY <1>24, <2>1, <2>2 DEF Start
<1>25. CASE Restart
  BY <1>25 DEF Restart
<1>26. CASE UNCHANGED vars
  BY <1>26 DEF vars
<1>27. QED
  BY <1>1, <1>2, <1>3, <1>4, <1>5, <1>6, <1>7, <1>8, <1>9, <1>10, <1>11, <1>12, <1>13, <1>14, <1>15, <1>16, <1>17, <1>18, <1>19, <1>20, <1>21, <1>22, <1>23, <1>24, <1>25, <1>26 DEF Next, DrainStep, Fault

LEMMA IsolationStep ==
  ASSUME IInv, [Next]_vars
  PROVE  IsolationTyped'
<1> USE DEF IInv, TypeOK, DrainTyped, RowsTyped, IsolationTyped, SegmentsOrdered, BatchesRead
<1>1. ASSUME NEW T \in SUBSET Stream, Archive(T) PROVE IsolationTyped'
  BY <1>1 DEF Archive
<1>2. ASSUME NEW F \in SUBSET Id, Flag(F) PROVE IsolationTyped'
  BY <1>2 DEF Flag, Uploaded, InFlight, ReadingIds, Batch, RowsOf
<1>3. ASSUME NEW s \in Stream, TableTurns(s) PROVE IsolationTyped'
  BY <1>3 DEF TableTurns
<1>4. CASE AskAll
  BY <1>4 DEF AskAll, BatchEnd, Least
<1>5. CASE AllStored
  BY <1>5 DEF AllStored, Stored, BatchOfAll, Batch, RowsOf, ReadingIds
<1>6. CASE Advance
  BY <1>6 DEF Advance
<1>7. CASE AllRefused
  BY <1>7 DEF AllRefused
<1>8. CASE AskStream
  BY <1>8 DEF AskStream, BatchEnd, Least
<1>9. CASE StreamStored
  BY <1>9 DEF StreamStored, Stored, Batch, RowsOf, ReadingIds
<1>10. CASE StreamRefused
  BY <1>10 DEF StreamRefused
<1>11. CASE SegmentStored
  <2>1. ends[1] \in 0..MaxRows /\ asked \in 0..MaxRows /\ asked < ends[1] /\ Tail(ends) \in Seq(0..MaxRows)
    BY <1>11, SegmentHead DEF SegmentStored, Asking
  <2>2. SegmentSize \in Nat
    BY <2>1 DEF SegmentSize
  <2>3. QED
    BY <1>11, <2>1, <2>2 DEF SegmentStored
<1>12. CASE SegmentHalved
  <2> DEFINE mid == asked + ((SegmentSize + 1) \div 2)
  <2>1. /\ ends[1] \in 0..MaxRows /\ asked \in 0..MaxRows /\ asked < ends[1]
        /\ Tail(ends) \in Seq(0..MaxRows)
    BY <1>12, SegmentHead DEF SegmentHalved, Asking
  <2>2. CASE SegmentSize = 1
    <3>1. ends[1] \in Id
      BY <2>1
    <3>2. asked' = ends[1] /\ ends' = Tail(ends) /\ failed' = failed \cup {ends[1]} /\ accepted' = accepted
      BY <1>12, <2>2 DEF SegmentHalved
    <3>3. streak' \in Nat
      BY <1>12 DEF SegmentHalved
    <3>4. QED
      BY <2>1, <3>1, <3>2, <3>3
  <2>3. CASE SegmentSize # 1
    <3>1. mid \in 0..MaxRows
      BY <2>3, <1>12, MiddleBounds DEF SegmentHalved, Asking
    <3>2. ends' = <<mid>> \o ends /\ UNCHANGED <<failed, asked>>
      BY <1>12, <2>3 DEF SegmentHalved
    <3>3. ends' \in Seq(0..MaxRows)
      BY <3>1, <3>2
    <3>4. QED
      BY <1>12, <3>2, <3>3 DEF SegmentHalved
  <2>4. QED
    BY <2>2, <2>3
<1>13. CASE TableBlamed
  BY <1>13 DEF TableBlamed, Asking, NextStream
<1>14. CASE IsolationVain
  BY <1>14 DEF IsolationVain, NextStream
<1>15. CASE IsolationDone
  BY <1>15 DEF IsolationDone
<1>16. CASE SetAside
  BY <1>16 DEF SetAside
<1>17. CASE Pass
  BY <1>17 DEF Pass
<1>18. CASE Finish
  BY <1>18 DEF Finish, Least
<1>19. CASE ResendStored
  BY <1>19 DEF ResendStored, AgainRows
<1>20. CASE ResendRefused
  BY <1>20 DEF ResendRefused, PutBack
<1>21. CASE AnswerLost
  BY <1>21 DEF AnswerLost, Asking, Stored, BatchOfAll, Batch, Segment, RowsOf, ReadingIds, Larger
<1>22. CASE BudgetSpent
  BY <1>22 DEF BudgetSpent
<1>23. CASE ResendFailed
  BY <1>23 DEF ResendFailed, PutBack, AgainRows
<1>24. CASE Start
  BY <1>24 DEF Start
<1>25. CASE Restart
  BY <1>25 DEF Restart
<1>26. CASE UNCHANGED vars
  BY <1>26 DEF vars
<1>27. QED
  BY <1>1, <1>2, <1>3, <1>4, <1>5, <1>6, <1>7, <1>8, <1>9, <1>10, <1>11, <1>12, <1>13, <1>14, <1>15, <1>16, <1>17, <1>18, <1>19, <1>20, <1>21, <1>22, <1>23, <1>24, <1>25, <1>26 DEF Next, DrainStep, Fault

LEMMA FreezesStep ==
  ASSUME IInv, [Next]_vars
  PROVE  FreezesTyped'
<1> USE DEF IInv, TypeOK, RowsTyped, FreezesTyped
<1>1. ASSUME NEW T \in SUBSET Stream, Archive(T) PROVE FreezesTyped'
  BY <1>1 DEF Archive
<1>2. ASSUME NEW F \in SUBSET Id, Flag(F) PROVE FreezesTyped'
  <2>1. Uploaded(F) \subseteq Id /\ F \subseteq Id
    BY DEF Uploaded
  <2>2. flagged' \subseteq Id /\ resend' \subseteq Id /\ overtaken' \subseteq Id
    BY <1>2, <2>1 DEF Flag
  <2>3. freezes' \in 0..MaxFreezes
    BY <1>2 DEF Flag
  <2>4. QED
    BY <1>2, <2>2, <2>3 DEF Flag
<1>3. ASSUME NEW s \in Stream, TableTurns(s) PROVE FreezesTyped'
  BY <1>3 DEF TableTurns
<1>4. CASE AskAll
  BY <1>4 DEF AskAll, BatchEnd, Least
<1>5. CASE AllStored
  BY <1>5 DEF AllStored, Stored, BatchOfAll, Batch, RowsOf, ReadingIds
<1>6. CASE Advance
  BY <1>6 DEF Advance
<1>7. CASE AllRefused
  BY <1>7 DEF AllRefused
<1>8. CASE AskStream
  BY <1>8 DEF AskStream, BatchEnd, Least
<1>9. CASE StreamStored
  BY <1>9 DEF StreamStored, Stored, Batch, RowsOf, ReadingIds
<1>10. CASE StreamRefused
  BY <1>10 DEF StreamRefused
<1>11. CASE SegmentStored
  BY <1>11 DEF SegmentStored, Asking, Segment, SegmentSize, Stored, RowsOf, ReadingIds
<1>12. CASE SegmentHalved
  BY <1>12 DEF SegmentHalved, Asking, SegmentSize
<1>13. CASE TableBlamed
  BY <1>13 DEF TableBlamed, Asking, NextStream
<1>14. CASE IsolationVain
  BY <1>14 DEF IsolationVain, NextStream
<1>15. CASE IsolationDone
  BY <1>15 DEF IsolationDone
<1>16. CASE SetAside
  BY <1>16 DEF SetAside
<1>17. CASE Pass
  BY <1>17 DEF Pass
<1>18. CASE Finish
  BY <1>18 DEF Finish, Least
<1>19. CASE ResendStored
  BY <1>19 DEF ResendStored, AgainRows
<1>20. CASE ResendRefused
  BY <1>20 DEF ResendRefused, PutBack
<1>21. CASE AnswerLost
  BY <1>21 DEF AnswerLost, Asking, Stored, BatchOfAll, Batch, Segment, RowsOf, ReadingIds, Larger
<1>22. CASE BudgetSpent
  BY <1>22 DEF BudgetSpent
<1>23. CASE ResendFailed
  BY <1>23 DEF ResendFailed, PutBack, AgainRows
<1>24. CASE Start
  BY <1>24 DEF Start
<1>25. CASE Restart
  BY <1>25 DEF Restart
<1>26. CASE UNCHANGED vars
  BY <1>26 DEF vars
<1>27. QED
  BY <1>1, <1>2, <1>3, <1>4, <1>5, <1>6, <1>7, <1>8, <1>9, <1>10, <1>11, <1>12, <1>13, <1>14, <1>15, <1>16, <1>17, <1>18, <1>19, <1>20, <1>21, <1>22, <1>23, <1>24, <1>25, <1>26 DEF Next, DrainStep, Fault

LEMMA SkippedStep ==
  ASSUME IInv, [Next]_vars
  PROVE  NothingSkipped'
<1> USE DEF IInv, TypeOK, RowsTyped, DrainTyped, NothingSkipped, BatchesRead, IsolationCovers, Answered
<1>1. ASSUME NEW T \in SUBSET Stream, Archive(T) PROVE NothingSkipped'
  BY <1>1 DEF Archive
<1>2. ASSUME NEW F \in SUBSET Id, Flag(F) PROVE NothingSkipped'
  BY <1>2 DEF Flag, Uploaded, InFlight, ReadingIds, Batch, RowsOf
<1>3. ASSUME NEW s \in Stream, TableTurns(s) PROVE NothingSkipped'
  BY <1>3 DEF TableTurns
<1>4. CASE AskAll
  BY <1>4 DEF AskAll, BatchEnd, Least
<1>5. CASE AllStored
  BY <1>5 DEF AllStored, Stored, BatchOfAll, Batch, RowsOf, ReadingIds
<1>6. CASE Advance
  BY <1>6 DEF Advance
<1>7. CASE AllRefused
  BY <1>7 DEF AllRefused
<1>8. CASE AskStream
  BY <1>8 DEF AskStream, BatchEnd, Least
<1>9. CASE StreamStored
  BY <1>9 DEF StreamStored, Stored, Batch, RowsOf, ReadingIds
<1>10. CASE StreamRefused
  BY <1>10 DEF StreamRefused
<1>11. CASE SegmentStored
  BY <1>11 DEF SegmentStored, Asking, Segment, SegmentSize, Stored, RowsOf, ReadingIds
<1>12. CASE SegmentHalved
  BY <1>12 DEF SegmentHalved, Asking, SegmentSize
<1>13. CASE TableBlamed
  BY <1>13 DEF TableBlamed, Asking, NextStream
<1>14. CASE IsolationVain
  BY <1>14 DEF IsolationVain, NextStream
<1>15. CASE IsolationDone
  BY <1>15 DEF IsolationDone
<1>16. CASE SetAside
  BY <1>16 DEF SetAside
<1>17. CASE Pass
  BY <1>17 DEF Pass
<1>18. CASE Finish
  BY <1>18 DEF Finish, Least
<1>19. CASE ResendStored
  BY <1>19 DEF ResendStored, AgainRows
<1>20. CASE ResendRefused
  BY <1>20 DEF ResendRefused, PutBack
<1>21. CASE AnswerLost
  BY <1>21 DEF AnswerLost, Asking, Stored, BatchOfAll, Batch, Segment, RowsOf, ReadingIds, Larger
<1>22. CASE BudgetSpent
  BY <1>22 DEF BudgetSpent
<1>23. CASE ResendFailed
  BY <1>23 DEF ResendFailed, PutBack, AgainRows
<1>24. CASE Start
  BY <1>24 DEF Start
<1>25. CASE Restart
  BY <1>25 DEF Restart
<1>26. CASE UNCHANGED vars
  BY <1>26 DEF vars
<1>27. QED
  BY <1>1, <1>2, <1>3, <1>4, <1>5, <1>6, <1>7, <1>8, <1>9, <1>10, <1>11, <1>12, <1>13, <1>14, <1>15, <1>16, <1>17, <1>18, <1>19, <1>20, <1>21, <1>22, <1>23, <1>24, <1>25, <1>26 DEF Next, DrainStep, Fault

LEMMA ReadStep ==
  ASSUME IInv, [Next]_vars
  PROVE  BatchesRead'
<1> USE DEF IInv, TypeOK, RowsTyped, DrainTyped, BatchesRead
<1>1. ASSUME NEW T \in SUBSET Stream, Archive(T) PROVE BatchesRead'
  BY <1>1 DEF Archive
<1>2. ASSUME NEW F \in SUBSET Id, Flag(F) PROVE BatchesRead'
  BY <1>2 DEF Flag, Uploaded, InFlight, ReadingIds, Batch, RowsOf
<1>3. ASSUME NEW s \in Stream, TableTurns(s) PROVE BatchesRead'
  BY <1>3 DEF TableTurns
<1>4. CASE AskAll
  BY <1>4, BatchEndBounds DEF AskAll
<1>5. CASE AllStored
  BY <1>5 DEF AllStored, Stored, BatchOfAll, Batch, RowsOf, ReadingIds
<1>6. CASE Advance
  <2>1. at \in Stream /\ cursor' = [cursor EXCEPT ![at] = upto[at]] /\ UNCHANGED <<archived, upto, cloud>>
    BY <1>6 DEF Advance
  <2>2. \A s \in Stream : cursor'[s] <= upto'[s] /\ upto'[s] <= archived'[s] /\ cursor'[s] <= archived'[s]
    BY <1>6, <2>1 DEF Advance
  <2>3. CASE at = NStreams
    BY <1>6, <2>1, <2>2, <2>3 DEF Advance
  <2>4. CASE at # NStreams
    <3>1. phase' = "advancing" /\ at' = at + 1
      BY <1>6, <2>4 DEF Advance
    <3>2. \A s \in Stream : s >= at' => cursor'[s] = cursor[s] /\ s >= at
      BY <2>1, <3>1
    <3>3. QED
      BY <1>6, <2>1, <2>2, <3>1, <3>2 DEF Advance
  <2>5. QED
    BY <2>3, <2>4
<1>7. CASE AllRefused
  BY <1>7 DEF AllRefused
<1>8. CASE AskStream
  <2>1. CASE cursor[at] < archived[at]
    <3>1. at \in Stream
      BY <1>8 DEF AskStream
    <3>2. /\ phase' = "sent" /\ at' = at /\ upto' = [upto EXCEPT ![at] = BatchEnd(at)]
          /\ UNCHANGED <<archived, cursor>>
      BY <1>8, <2>1 DEF AskStream
    <3>3. cursor[at] < BatchEnd(at) /\ BatchEnd(at) <= archived[at]
      BY <2>1, <3>1, BatchEndBounds
    <3>4. QED
      BY <3>1, <3>2, <3>3
  <2>2. CASE ~(cursor[at] < archived[at])
    BY <1>8, <2>2 DEF AskStream
  <2>3. QED
    BY <2>1, <2>2
<1>9. CASE StreamStored
  BY <1>9 DEF StreamStored, Stored, Batch, RowsOf, ReadingIds
<1>10. CASE StreamRefused
  BY <1>10 DEF StreamRefused
<1>11. CASE SegmentStored
  BY <1>11 DEF SegmentStored, Asking, Segment, SegmentSize, Stored, RowsOf, ReadingIds
<1>12. CASE SegmentHalved
  BY <1>12 DEF SegmentHalved, Asking, SegmentSize
<1>13. CASE TableBlamed
  BY <1>13 DEF TableBlamed, Asking, NextStream
<1>14. CASE IsolationVain
  BY <1>14 DEF IsolationVain, NextStream
<1>15. CASE IsolationDone
  BY <1>15 DEF IsolationDone
<1>16. CASE SetAside
  BY <1>16 DEF SetAside
<1>17. CASE Pass
  BY <1>17 DEF Pass
<1>18. CASE Finish
  BY <1>18 DEF Finish, Least
<1>19. CASE ResendStored
  BY <1>19 DEF ResendStored, AgainRows
<1>20. CASE ResendRefused
  BY <1>20 DEF ResendRefused, PutBack
<1>21. CASE AnswerLost
  BY <1>21 DEF AnswerLost, Asking, Stored, BatchOfAll, Batch, Segment, RowsOf, ReadingIds, Larger
<1>22. CASE BudgetSpent
  BY <1>22 DEF BudgetSpent
<1>23. CASE ResendFailed
  BY <1>23 DEF ResendFailed, PutBack, AgainRows
<1>24. CASE Start
  BY <1>24 DEF Start
<1>25. CASE Restart
  BY <1>25 DEF Restart
<1>26. CASE UNCHANGED vars
  BY <1>26 DEF vars
<1>27. QED
  BY <1>1, <1>2, <1>3, <1>4, <1>5, <1>6, <1>7, <1>8, <1>9, <1>10, <1>11, <1>12, <1>13, <1>14, <1>15, <1>16, <1>17, <1>18, <1>19, <1>20, <1>21, <1>22, <1>23, <1>24, <1>25, <1>26 DEF Next, DrainStep, Fault

LEMMA HalvedOrdered ==
  ASSUME TypeOK, SegmentsOrdered, SegmentHalved
  PROVE  SegmentsOrdered'
<1>1. ends # <<>> /\ IsolationTyped
  BY DEF SegmentHalved, Asking, TypeOK
<1>2. CASE SegmentSize = 1
  <2>1. asked' = ends[1] /\ ends' = Tail(ends)
    BY <1>2 DEF SegmentHalved
  <2>2. QED
    BY <1>1, <2>1, AfterHead DEF SegmentsOrdered
<1>3. CASE SegmentSize # 1
  <2>1. PICK mid \in 0..MaxRows : asked < mid /\ mid < ends[1] /\ ends' = <<mid>> \o ends
    BY <1>1, <1>3, MiddleBounds DEF SegmentHalved
  <2>2. /\ asked \in 0..MaxRows /\ asked' = asked /\ Len(ends) \in Nat
        /\ ends[1] \in 0..MaxRows /\ ends \in Seq(0..MaxRows)
    BY <1>1, <1>3, SegmentHead DEF SegmentHalved
  <2>3. /\ Len(ends') = Len(ends) + 1 /\ ends'[1] = mid
        /\ \A k \in 2..Len(ends') : k - 1 \in 1..Len(ends) /\ ends'[k] = ends[k - 1]
    BY <2>1, <2>2
  <2>4. \A k \in 1..Len(ends) : ends[1] <= ends[k] /\ ends[k] \in 0..MaxRows
    <3>1. TAKE k \in 1..Len(ends)
    <3>2. ends[k] \in 0..MaxRows /\ 1 \in 1..Len(ends) /\ (k = 1 \/ 1 < k)
      BY <2>2, <3>1
    <3>3. QED
      BY <2>2, <3>1, <3>2 DEF SegmentsOrdered
  <2>5. SUFFICES ASSUME NEW k \in 1..Len(ends')
                 PROVE  /\ asked < ends'[k]
                        /\ \A j \in 1..Len(ends') : j < k => ends'[j] < ends'[k]
    BY <2>2 DEF SegmentsOrdered
  <2>6. CASE k = 1
    BY <2>1, <2>3, <2>6
  <2>7. CASE k # 1
    <3>1. k - 1 \in 1..Len(ends) /\ ends'[k] = ends[k - 1] /\ mid \in Nat /\ asked \in Nat
      BY <2>2, <2>3, <2>7
    <3>2. ends[1] <= ends'[k] /\ ends'[k] \in Nat
      BY <2>4, <3>1
    <3>3. mid < ends'[k] /\ asked < ends'[k]
      BY <2>1, <2>2, <3>1, <3>2
    <3>4. ASSUME NEW j \in 1..Len(ends'), j < k PROVE ends'[j] < ends'[k]
      <4>1. CASE j = 1
        BY <4>1, <2>3, <3>3
      <4>2. CASE j # 1
        <5>1. j - 1 \in 1..Len(ends) /\ ends'[j] = ends[j - 1] /\ j - 1 < k - 1
          BY <2>2, <2>3, <3>4, <4>2
        <5>2. QED
          BY <3>1, <5>1 DEF SegmentsOrdered
      <4>3. QED
        BY <4>1, <4>2
    <3>5. QED
      BY <3>3, <3>4
  <2>8. QED
    BY <2>6, <2>7
<1>4. QED
  BY <1>2, <1>3


LEMMA OrderStep ==
  ASSUME IInv, [Next]_vars
  PROVE  SegmentsOrdered'
<1> USE DEF IInv, TypeOK, RowsTyped, DrainTyped, IsolationTyped, BatchesRead, SegmentsOrdered
<1>1. ASSUME NEW T \in SUBSET Stream, Archive(T) PROVE SegmentsOrdered'
  BY <1>1 DEF Archive
<1>2. ASSUME NEW F \in SUBSET Id, Flag(F) PROVE SegmentsOrdered'
  BY <1>2 DEF Flag, Uploaded, InFlight, ReadingIds, Batch, RowsOf
<1>3. ASSUME NEW s \in Stream, TableTurns(s) PROVE SegmentsOrdered'
  BY <1>3 DEF TableTurns
<1>4. CASE AskAll
  BY <1>4 DEF AskAll, BatchEnd, Least
<1>5. CASE AllStored
  BY <1>5 DEF AllStored, Stored, BatchOfAll, Batch, RowsOf, ReadingIds
<1>6. CASE Advance
  BY <1>6 DEF Advance
<1>7. CASE AllRefused
  BY <1>7 DEF AllRefused
<1>8. CASE AskStream
  BY <1>8 DEF AskStream, BatchEnd, Least
<1>9. CASE StreamStored
  BY <1>9 DEF StreamStored, Stored, Batch, RowsOf, ReadingIds
<1>10. CASE StreamRefused
  BY <1>10 DEF StreamRefused
<1>11. CASE SegmentStored
  <2>1. /\ ends \in Seq(0..MaxRows) /\ ends # <<>> /\ Len(ends) \in Nat /\ Len(ends) > 0
        /\ asked \in 0..MaxRows /\ ends[1] \in 0..MaxRows /\ asked < ends[1]
        /\ Tail(ends) \in Seq(0..MaxRows) /\ Len(Tail(ends)) = Len(ends) - 1
        /\ \A k \in 1..(Len(ends) - 1) : Tail(ends)[k] = ends[k + 1]
    BY <1>11, SegmentHead DEF SegmentStored, Asking
  <2>2. asked' = ends[1] /\ ends' = Tail(ends)
    BY <1>11 DEF SegmentStored
  <2>3. QED
    BY <2>1, <2>2, AfterHead
<1>12. CASE SegmentHalved
  BY <1>12, HalvedOrdered
<1>13. CASE TableBlamed
  BY <1>13 DEF TableBlamed, Asking, NextStream
<1>14. CASE IsolationVain
  BY <1>14 DEF IsolationVain, NextStream
<1>15. CASE IsolationDone
  BY <1>15 DEF IsolationDone
<1>16. CASE SetAside
  BY <1>16 DEF SetAside
<1>17. CASE Pass
  BY <1>17 DEF Pass
<1>18. CASE Finish
  BY <1>18 DEF Finish, Least
<1>19. CASE ResendStored
  BY <1>19 DEF ResendStored, AgainRows
<1>20. CASE ResendRefused
  BY <1>20 DEF ResendRefused, PutBack
<1>21. CASE AnswerLost
  BY <1>21 DEF AnswerLost, Asking, Stored, BatchOfAll, Batch, Segment, RowsOf, ReadingIds, Larger
<1>22. CASE BudgetSpent
  BY <1>22 DEF BudgetSpent
<1>23. CASE ResendFailed
  BY <1>23 DEF ResendFailed, PutBack, AgainRows
<1>24. CASE Start
  BY <1>24 DEF Start
<1>25. CASE Restart
  BY <1>25 DEF Restart
<1>26. CASE UNCHANGED vars
  BY <1>26 DEF vars
<1>27. QED
  BY <1>1, <1>2, <1>3, <1>4, <1>5, <1>6, <1>7, <1>8, <1>9, <1>10, <1>11, <1>12, <1>13, <1>14, <1>15, <1>16, <1>17, <1>18, <1>19, <1>20, <1>21, <1>22, <1>23, <1>24, <1>25, <1>26 DEF Next, DrainStep, Fault

LEMMA StoredCovers ==
  ASSUME TypeOK, SegmentsOrdered, IsolationCovers, SegmentStored
  PROVE  IsolationCovers'
<1> DEFINE last == ends[Len(ends)]
<1>1. /\ phase = "isolating" /\ ends # <<>>
      /\ asked' = ends[1] /\ ends' = Tail(ends) /\ cloud' = cloud \cup Segment
      /\ UNCHANGED <<phase, at, upto, cursor, failed, rejects>>
  BY DEF SegmentStored, Asking, Stored
<1>2. IsolationTyped /\ at \in Stream /\ cursor[at] \in 0..MaxRows /\ upto[at] \in 0..MaxRows
  BY <1>1 DEF TypeOK, RowsTyped, DrainTyped
<1>3. /\ last = upto[at] /\ cursor[at] <= asked /\ Answered(asked)
      /\ \A i \in failed : cursor[at] < i /\ i <= upto[at]
  BY <1>1 DEF IsolationCovers
<1>4. IF ends' = <<>> THEN asked' = upto'[at'] ELSE ends'[Len(ends')] = upto'[at']
  <2>1. CASE Len(ends) = 1
    BY <1>1, <1>2, <1>3, <2>1, LastSegment
  <2>2. CASE Len(ends) # 1
    <3>1. Len(ends) - 1 \in 1..(Len(ends) - 1) /\ Len(Tail(ends)) = Len(ends) - 1
      BY <1>1, <1>2, <2>2, SegmentHead
    <3>2. Tail(ends)[Len(Tail(ends))] = ends[Len(ends)]
      BY <1>1, <1>2, <3>1, SegmentHead
    <3>3. QED
      BY <1>1, <1>2, <1>3, <2>2, <3>2, LastSegment
  <2>3. QED
    BY <2>1, <2>2
<1>5. cursor'[at'] <= asked'
  BY <1>1, <1>2, <1>3, SegmentHead
<1>6. Answered(asked)' 
  <2>1. SUFFICES ASSUME NEW i \in Id, cursor[at] < i, i <= ends[1]
                 PROVE  <<at, i>> \in cloud' \cup rejects \/ i \in failed
    BY <1>1 DEF Answered
  <2>2. CASE i <= asked
    BY <1>1, <1>3, <2>1, <2>2 DEF Answered
  <2>3. CASE ~(i <= asked)
    <3>1. i \in (asked + 1)..ends[1]
      BY <1>1, <1>2, <2>1, <2>3, SegmentHead
    <3>2. QED
      BY <1>1, <3>1 DEF Segment, RowsOf
  <2>4. QED
    BY <2>2, <2>3
<1>7. QED
  BY <1>1, <1>3, <1>4, <1>5, <1>6 DEF IsolationCovers

LEMMA HalvedCovers ==
  ASSUME TypeOK, SegmentsOrdered, IsolationCovers, SegmentHalved
  PROVE  IsolationCovers'
<1>1. /\ phase = "isolating" /\ ends # <<>>
      /\ UNCHANGED <<phase, at, upto, cursor, cloud, rejects>>
  BY DEF SegmentHalved, Asking
<1>2. IsolationTyped /\ at \in Stream /\ cursor[at] \in 0..MaxRows /\ upto[at] \in 0..MaxRows
  BY <1>1 DEF TypeOK, RowsTyped, DrainTyped
<1>3. /\ ends[Len(ends)] = upto[at] /\ cursor[at] <= asked /\ Answered(asked)
      /\ \A i \in failed : cursor[at] < i /\ i <= upto[at]
  BY <1>1 DEF IsolationCovers
<1>4. CASE SegmentSize = 1
  <2>1. asked' = ends[1] /\ ends' = Tail(ends) /\ failed' = failed \cup {ends[1]}
    BY <1>4 DEF SegmentHalved
  <2>2. IF ends' = <<>> THEN asked' = upto'[at'] ELSE ends'[Len(ends')] = upto'[at']
    <3>1. CASE Len(ends) = 1
      BY <1>1, <1>2, <1>3, <2>1, <3>1, LastSegment
    <3>2. CASE Len(ends) # 1
      <4>1. Len(ends) - 1 \in 1..(Len(ends) - 1) /\ Len(Tail(ends)) = Len(ends) - 1
        BY <1>1, <1>2, <3>2, SegmentHead
      <4>2. Tail(ends)[Len(Tail(ends))] = ends[Len(ends)]
        BY <1>1, <1>2, <4>1, SegmentHead
      <4>3. QED
        BY <1>1, <1>2, <1>3, <2>1, <3>2, <4>2, LastSegment
    <3>3. QED
      BY <3>1, <3>2
  <2>3. cursor[at] < ends[1] /\ ends[1] <= upto[at]
    BY <1>1, <1>2, <1>3, SegmentHead, LastSegment
  <2>4. Answered(asked)'
    <3>1. SUFFICES ASSUME NEW i \in Id, cursor[at] < i, i <= ends[1]
                   PROVE  <<at, i>> \in cloud \cup rejects \/ i \in failed'
      BY <1>1, <2>1 DEF Answered
    <3>2. i <= asked \/ i = ends[1]
      BY <1>1, <1>2, <1>4, <3>1, SegmentHead DEF SegmentSize
    <3>3. QED
      BY <1>3, <2>1, <3>1, <3>2 DEF Answered
  <2>5. \A i \in failed' : cursor'[at'] < i /\ i <= upto'[at']
    BY <1>1, <1>3, <2>1, <2>3
  <2>6. cursor'[at'] <= asked'
    BY <1>1, <1>2, <2>1, <2>3, SegmentHead
  <2>7. QED
    BY <1>1, <2>2, <2>4, <2>5, <2>6 DEF IsolationCovers
<1>5. CASE SegmentSize # 1
  <2>1. PICK mid \in 0..MaxRows : ends' = <<mid>> \o ends
    BY <1>1, <1>2, <1>5, MiddleBounds DEF SegmentHalved
  <2>2. UNCHANGED <<failed, asked>>
    BY <1>5 DEF SegmentHalved
  <2>3. ends' # <<>> /\ ends'[Len(ends')] = ends[Len(ends)]
    BY <1>1, <1>2, <2>1, SegmentHead
  <2>4. Answered(asked)'
    BY <1>1, <1>3, <2>2 DEF Answered
  <2>5. QED
    BY <1>1, <1>3, <2>2, <2>3, <2>4 DEF IsolationCovers
<1>6. QED
  BY <1>4, <1>5

LEMMA CoversStep ==
  ASSUME IInv, [Next]_vars
  PROVE  IsolationCovers'
<1> USE DEF IInv, TypeOK, RowsTyped, DrainTyped, IsolationTyped, BatchesRead, SegmentsOrdered, IsolationCovers, Answered
<1>1. ASSUME NEW T \in SUBSET Stream, Archive(T) PROVE IsolationCovers'
  BY <1>1 DEF Archive
<1>2. ASSUME NEW F \in SUBSET Id, Flag(F) PROVE IsolationCovers'
  BY <1>2 DEF Flag, Uploaded, InFlight, ReadingIds, Batch, RowsOf
<1>3. ASSUME NEW s \in Stream, TableTurns(s) PROVE IsolationCovers'
  BY <1>3 DEF TableTurns
<1>4. CASE AskAll
  BY <1>4 DEF AskAll, BatchEnd, Least
<1>5. CASE AllStored
  BY <1>5 DEF AllStored, Stored, BatchOfAll, Batch, RowsOf, ReadingIds
<1>6. CASE Advance
  BY <1>6 DEF Advance
<1>7. CASE AllRefused
  BY <1>7 DEF AllRefused
<1>8. CASE AskStream
  BY <1>8 DEF AskStream, BatchEnd, Least
<1>9. CASE StreamStored
  BY <1>9 DEF StreamStored, Stored, Batch, RowsOf, ReadingIds
<1>10. CASE StreamRefused
  BY <1>10 DEF StreamRefused
<1>11. CASE SegmentStored
  BY <1>11, StoredCovers
<1>12. CASE SegmentHalved
  BY <1>12, HalvedCovers
<1>13. CASE TableBlamed
  BY <1>13 DEF TableBlamed, Asking, NextStream
<1>14. CASE IsolationVain
  BY <1>14 DEF IsolationVain, NextStream
<1>15. CASE IsolationDone
  BY <1>15 DEF IsolationDone
<1>16. CASE SetAside
  BY <1>16 DEF SetAside
<1>17. CASE Pass
  BY <1>17 DEF Pass
<1>18. CASE Finish
  BY <1>18 DEF Finish, Least
<1>19. CASE ResendStored
  BY <1>19 DEF ResendStored, AgainRows
<1>20. CASE ResendRefused
  BY <1>20 DEF ResendRefused, PutBack
<1>21. CASE AnswerLost
  BY <1>21 DEF AnswerLost, Asking, Stored, BatchOfAll, Batch, Segment, RowsOf, ReadingIds, Larger
<1>22. CASE BudgetSpent
  BY <1>22 DEF BudgetSpent
<1>23. CASE ResendFailed
  BY <1>23 DEF ResendFailed, PutBack, AgainRows
<1>24. CASE Start
  BY <1>24 DEF Start
<1>25. CASE Restart
  BY <1>25 DEF Restart
<1>26. CASE UNCHANGED vars
  BY <1>26 DEF vars
<1>27. QED
  BY <1>1, <1>2, <1>3, <1>4, <1>5, <1>6, <1>7, <1>8, <1>9, <1>10, <1>11, <1>12, <1>13, <1>14, <1>15, <1>16, <1>17, <1>18, <1>19, <1>20, <1>21, <1>22, <1>23, <1>24, <1>25, <1>26 DEF Next, DrainStep, Fault

LEMMA BatchesKept ==
  ASSUME IInv
  PROVE  /\ phase = "allSent" => \A r \in BatchOfAll : r[2] <= archived[r[1]]
         /\ phase = "sent" => \A r \in Batch(at) : r[2] <= archived[r[1]]
         /\ Asking => \A r \in Segment : r[2] <= archived[r[1]]
<1>1. TypeOK /\ RowsTyped /\ DrainTyped /\ IsolationTyped /\ BatchesRead /\ SegmentsOrdered /\ IsolationCovers
  BY DEF IInv, TypeOK
<1>2. ASSUME phase = "allSent" PROVE \A r \in BatchOfAll : r[2] <= archived[r[1]]
  BY <1>1, <1>2 DEF BatchOfAll, Batch, RowsOf, BatchesRead, RowsTyped
<1>3. ASSUME phase = "sent" PROVE \A r \in Batch(at) : r[2] <= archived[r[1]]
  BY <1>1, <1>3 DEF Batch, RowsOf, BatchesRead, RowsTyped, DrainTyped
<1>4. ASSUME Asking PROVE \A r \in Segment : r[2] <= archived[r[1]]
  <2>1. ends[1] <= ends[Len(ends)] /\ ends[1] \in 0..MaxRows /\ asked \in 0..MaxRows
    BY <1>1, <1>4, LastSegment, SegmentHead DEF Asking
  <2>2. ends[Len(ends)] = upto[at] /\ at \in Stream
    BY <1>1, <1>4 DEF Asking, IsolationCovers, DrainTyped
  <2>3. upto[at] <= archived[at] /\ upto[at] \in 0..MaxRows /\ archived[at] \in 0..MaxRows
    BY <1>1, <1>4, <2>2 DEF Asking, BatchesRead, RowsTyped
  <2>4. QED
    BY <2>1, <2>2, <2>3 DEF Segment, RowsOf
<1>5. QED
  BY <1>2, <1>3, <1>4


LEMMA KeptStep ==
  ASSUME IInv, [Next]_vars
  PROVE  KeptOnly'
<1> USE DEF IInv, TypeOK, RowsTyped, DrainTyped, FreezesTyped, BatchesRead, KeptOnly
<1>1. ASSUME NEW T \in SUBSET Stream, Archive(T) PROVE KeptOnly'
  BY <1>1 DEF Archive
<1>2. ASSUME NEW F \in SUBSET Id, Flag(F) PROVE KeptOnly'
  BY <1>2 DEF Flag, Uploaded, InFlight, ReadingIds, Batch, RowsOf
<1>3. ASSUME NEW s \in Stream, TableTurns(s) PROVE KeptOnly'
  BY <1>3 DEF TableTurns
<1>4. CASE AskAll
  BY <1>4 DEF AskAll, BatchEnd, Least
<1>5. CASE AllStored
  <2>1. \A r \in BatchOfAll : r[2] <= archived[r[1]]
    BY <1>5, BatchesKept DEF AllStored
  <2>2. cloud' = cloud \cup BatchOfAll /\ UNCHANGED <<archived, resend, resending>>
    BY <1>5 DEF AllStored, Stored
  <2>3. QED
    BY <2>1, <2>2
<1>6. CASE Advance
  BY <1>6 DEF Advance
<1>7. CASE AllRefused
  BY <1>7 DEF AllRefused
<1>8. CASE AskStream
  BY <1>8 DEF AskStream, BatchEnd, Least
<1>9. CASE StreamStored
  <2>1. \A r \in Batch(at) : r[2] <= archived[r[1]]
    BY <1>9, BatchesKept DEF StreamStored
  <2>2. cloud' = cloud \cup Batch(at) /\ UNCHANGED <<archived, resend, resending>>
    BY <1>9 DEF StreamStored, Stored
  <2>3. QED
    BY <2>1, <2>2
<1>10. CASE StreamRefused
  BY <1>10 DEF StreamRefused
<1>11. CASE SegmentStored
  <2>1. \A r \in Segment : r[2] <= archived[r[1]]
    BY <1>11, BatchesKept DEF SegmentStored
  <2>2. cloud' = cloud \cup Segment /\ UNCHANGED <<archived, resend, resending>>
    BY <1>11 DEF SegmentStored, Stored
  <2>3. QED
    BY <2>1, <2>2
<1>12. CASE SegmentHalved
  BY <1>12 DEF SegmentHalved, Asking, SegmentSize
<1>13. CASE TableBlamed
  BY <1>13 DEF TableBlamed, Asking, NextStream
<1>14. CASE IsolationVain
  BY <1>14 DEF IsolationVain, NextStream
<1>15. CASE IsolationDone
  BY <1>15 DEF IsolationDone
<1>16. CASE SetAside
  BY <1>16 DEF SetAside
<1>17. CASE Pass
  BY <1>17 DEF Pass
<1>18. CASE Finish
  BY <1>18 DEF Finish, Least
<1>19. CASE ResendStored
  BY <1>19 DEF ResendStored, AgainRows
<1>20. CASE ResendRefused
  BY <1>20 DEF ResendRefused, PutBack
<1>21. CASE AnswerLost
  <2>1. UNCHANGED <<archived, resend, resending>>
    BY <1>21 DEF AnswerLost
  <2>2. CASE UNCHANGED cloud
    BY <2>1, <2>2
  <2>3. CASE \E R \in {BatchOfAll, Batch(at), Segment} :
               cloud' = cloud \cup R /\ \A r \in R : r[2] <= archived[r[1]]
    BY <2>1, <2>3
  <2>4. QED
    BY <1>21, <2>2, <2>3, BatchesKept DEF AnswerLost, Stored
<1>22. CASE BudgetSpent
  BY <1>22 DEF BudgetSpent
<1>23. CASE ResendFailed
  BY <1>23 DEF ResendFailed, PutBack, AgainRows
<1>24. CASE Start
  BY <1>24 DEF Start
<1>25. CASE Restart
  BY <1>25 DEF Restart
<1>26. CASE UNCHANGED vars
  BY <1>26 DEF vars
<1>27. QED
  BY <1>1, <1>2, <1>3, <1>4, <1>5, <1>6, <1>7, <1>8, <1>9, <1>10, <1>11, <1>12, <1>13, <1>14, <1>15, <1>16, <1>17, <1>18, <1>19, <1>20, <1>21, <1>22, <1>23, <1>24, <1>25, <1>26 DEF Next, DrainStep, Fault

LEMMA InvariantInit == Init => IInv
<1>1. SUFFICES ASSUME Init PROVE IInv
  OBVIOUS
<1>2. RowsTyped /\ FreezesTyped
  BY <1>1 DEF Init, RowsTyped, FreezesTyped
<1>3. DrainTyped
  <2>1. batch \in MinBatch..MaxBatch /\ at \in 1..(NStreams + 1)
    BY <1>1 DEF Init
  <2>2. phase \in Phase /\ phase \notin {"advancing", "sent", "isolating", "settingAside"}
    BY <1>1 DEF Init, Phase
  <2>3. erred \in BOOLEAN
    BY <1>1 DEF Init
  <2>4. crashes \in 0..MaxCrashes
    BY <1>1 DEF Init
  <2>5. QED
    BY <2>1, <2>2, <2>3, <2>4 DEF DrainTyped
<1>4. IsolationTyped
  BY <1>1, EmptySeq DEF Init, IsolationTyped
<1>5. NothingSkipped /\ BatchesRead /\ SegmentsOrdered /\ IsolationCovers /\ KeptOnly
  BY <1>1 DEF Init, NothingSkipped, BatchesRead, SegmentsOrdered, IsolationCovers, KeptOnly
<1>6. QED
  BY <1>2, <1>3, <1>4, <1>5 DEF IInv, TypeOK

LEMMA InvariantStep == IInv /\ [Next]_vars => IInv'
<1>1. SUFFICES ASSUME IInv, [Next]_vars PROVE IInv'
  OBVIOUS
<1>2. TypeOK'
  BY <1>1, RowsStep, DrainTypedStep, IsolationStep, FreezesStep DEF TypeOK
<1>3. QED
  BY <1>1, <1>2, SkippedStep, ReadStep, OrderStep, CoversStep, KeptStep DEF IInv

\* The strengthened invariant: every batch read is in range, isolate's segments
\* cover its batch, and every row it answered for is accounted for.
THEOREM Invariant == Spec => []IInv
BY InvariantInit, InvariantStep, PTL DEF Spec

\* Every variable keeps its type, for any number of streams, rows and batch sizes.
THEOREM TypeCorrect == Spec => []TypeOK
<1>1. IInv => TypeOK
  BY DEF IInv
<1>2. QED
  BY <1>1, Invariant, PTL

\* drainArchive never moves a cursor over a row that is neither in the cloud nor
\* set aside: however requests, halving, lost answers and restarts interleave.
THEOREM NoRowSkipped == Spec => []NothingSkipped
<1>1. IInv => NothingSkipped
  BY DEF IInv
<1>2. QED
  BY <1>1, Invariant, PTL

LEMMA CloudKept ==
  ASSUME TypeOK, KeptOnly
  PROVE  cloud \subseteq Promise!Kept
BY DEF TypeOK, RowsTyped, KeptOnly, Promise!Kept

LEMMA StoreMaps ==
  ASSUME IInv, IInv', cloud \subseteq cloud', UNCHANGED <<archived, cursor, rejects>>
  PROVE  Promise!Store
<1>1. cloud' \subseteq {r \in Stream \X Id : r[2] <= archived'[r[1]]}
  BY DEF IInv, TypeOK, RowsTyped, KeptOnly
<1>2. QED
  BY <1>1 DEF Promise!Store, Promise!Kept

\* A cursor that moves to the end of a batch acknowledges what the invariant of
\* the next state says is there.
LEMMA AcknowledgeMaps ==
  ASSUME IInv, IInv', at \in Stream, cursor[at] <= upto[at], upto[at] <= archived[at],
         cursor' = [cursor EXCEPT ![at] = upto[at]], cloud \subseteq cloud',
         UNCHANGED <<archived, rejects>>
  PROVE  Promise!ObNext
<1>1. RowsTyped /\ upto[at] \in 0..MaxRows
  BY DEF IInv, TypeOK, RowsTyped
<1>2. cloud' \subseteq Promise!Kept
  <2>1. cloud' \subseteq {r \in Stream \X Id : r[2] <= archived'[r[1]]}
    BY DEF IInv, TypeOK, RowsTyped, KeptOnly
  <2>2. QED
    BY <2>1 DEF Promise!Kept
<1>3. \A i \in Id : cursor[at] < i /\ i <= upto[at] => <<at, i>> \in cloud' \cup rejects
  <2>1. cursor'[at] = upto[at]
    BY <1>1 DEF RowsTyped
  <2>2. QED
    BY <2>1 DEF IInv, NothingSkipped
<1>4. Promise!Acknowledge(at, upto[at])
  BY <1>2, <1>3 DEF Promise!Acknowledge
<1>5. upto[at] \in Id \cup {0}
  BY <1>1
<1>6. QED
  BY <1>4, <1>5 DEF Promise!ObNext

\* One step of the drain is one step of the outbox, or none.
LEMMA StepMaps ==
  ASSUME IInv, IInv', [Next]_vars
  PROVE  [Promise!ObNext]_Promise!obVars
<1> USE DEF Promise!obVars
<1>1. ASSUME NEW T \in SUBSET Stream, Archive(T) PROVE Promise!ObNext
  <2>1. archived \in [Stream -> 0..MaxRows] /\ archived' \in [Stream -> 0..MaxRows]
    BY DEF IInv, TypeOK, RowsTyped
  <2>2. /\ archived' = [s \in Stream |-> IF s \in T THEN archived[s] + 1 ELSE archived[s]]
        /\ UNCHANGED <<cursor, cloud, rejects>>
    BY <1>1 DEF Archive
  <2>3. \A s \in Stream : archived'[s] \in {archived[s], archived[s] + 1}
    BY <2>2
  <2>4. archived' \in [Stream -> Id \cup {0}]
    BY <2>1
  <2>5. QED
    BY <2>2, <2>3, <2>4 DEF Promise!ObNext, Promise!Add
<1>2. ASSUME NEW F \in SUBSET Id, Flag(F) PROVE UNCHANGED Promise!obVars
  BY <1>2 DEF Flag
<1>3. ASSUME NEW s \in Stream, TableTurns(s) PROVE UNCHANGED Promise!obVars
  BY <1>3 DEF TableTurns
<1>4. CASE AllStored \/ SegmentStored \/ ResendStored \/ ResendFailed \/ AnswerLost
  <2>1. cloud \subseteq cloud' /\ UNCHANGED <<archived, cursor, rejects>>
    BY <1>4 DEF AllStored, SegmentStored, ResendStored, ResendFailed, AnswerLost, Stored, PutBack
  <2>2. QED
    BY <2>1, StoreMaps DEF Promise!ObNext
<1>5. CASE SetAside
  <2>1. PICK i \in failed : rejects' = rejects \cup {<<at, i>>}
    BY <1>5 DEF SetAside
  <2>2. phase = "settingAside" /\ UNCHANGED <<archived, cursor, cloud>>
    BY <1>5 DEF SetAside
  <2>3. at \in Stream /\ i \in Id /\ i <= upto[at] /\ upto[at] <= archived[at]
    BY <2>1, <2>2 DEF IInv, TypeOK, DrainTyped, IsolationTyped, IsolationCovers, BatchesRead
  <2>4. archived[at] \in 0..MaxRows /\ upto[at] \in 0..MaxRows
    BY <2>3 DEF IInv, TypeOK, RowsTyped
  <2>5. <<at, i>> \in Promise!Kept
    BY <2>3, <2>4 DEF Promise!Kept
  <2>6. QED
    BY <2>1, <2>2, <2>5 DEF Promise!ObNext, Promise!SetAside
<1>6. CASE Advance \/ StreamStored \/ Pass
  <2>1. phase \in {"advancing", "sent", "settingAside"}
    BY <1>6 DEF Advance, StreamStored, Pass
  <2>2. at \in Stream /\ cursor[at] \in 0..MaxRows /\ upto[at] \in 0..MaxRows
    BY <2>1 DEF IInv, TypeOK, DrainTyped, RowsTyped
  <2>3. cursor[at] <= upto[at] /\ upto[at] <= archived[at]
    BY <2>1, <2>2 DEF IInv, BatchesRead
  <2>4. /\ cursor' = [cursor EXCEPT ![at] = upto[at]] /\ cloud \subseteq cloud'
        /\ UNCHANGED <<archived, rejects>>
    BY <1>6 DEF Advance, StreamStored, Pass, Stored
  <2>5. QED
    BY <2>2, <2>3, <2>4, AcknowledgeMaps
<1>7. CASE AskAll \/ AllRefused \/ AskStream \/ StreamRefused
  BY <1>7 DEF AskAll, AllRefused, AskStream, StreamRefused
<1>8. CASE SegmentHalved \/ TableBlamed \/ IsolationVain \/ IsolationDone
  BY <1>8 DEF SegmentHalved, TableBlamed, IsolationVain, IsolationDone, NextStream
<1>9. CASE Start \/ Finish \/ BudgetSpent \/ ResendRefused \/ Restart
  BY <1>9 DEF Start, Finish, BudgetSpent, ResendRefused, PutBack, Restart
<1>10. CASE UNCHANGED vars
  BY <1>10 DEF vars
<1>11. QED
  BY <1>1, <1>2, <1>3, <1>4, <1>5, <1>6, <1>7, <1>8, <1>9, <1>10 DEF Next, DrainStep, Fault

\* drainArchive keeps the archive's promise: rows are acknowledged in order, over
\* rows the cloud holds or rows set aside, and nothing acknowledged or stored is
\* taken back.
THEOREM DrainImplementsOutbox == Spec => Implements
<1>1. Init => Promise!ObInit
  BY DEF Init, Promise!ObInit
<1>2. IInv /\ IInv' /\ [Next]_vars => [Promise!ObNext]_Promise!obVars
  BY StepMaps
<1>3. QED
  BY <1>1, <1>2, Invariant, PTL DEF Spec, Implements, Promise!ObSpec

(***************************************************************************)
(* Who is set aside. While a table does not turn during a drain, a row     *)
(* stored out of a refused batch clears the table: what was refused on its *)
(* own is refused for itself.                                              *)
(***************************************************************************)
Blame ==
  /\ OnlyRefusedSetAside
  /\ phase = "isolating" =>
       /\ \A i \in failed : <<at, i>> \in RefusedRows \/ at \in refusing
       /\ accepted # 0 => at \notin refusing
  /\ phase = "settingAside" => \A i \in failed : <<at, i>> \in RefusedRows

LEMMA LoneRow ==
  ASSUME IsolationTyped, SegmentsOrdered, ends # <<>>, SegmentSize = 1
  PROVE  Segment = {<<at, ends[1]>>}
<1>1. ends[1] \in 0..MaxRows /\ asked \in 0..MaxRows
  BY SegmentHead DEF IsolationTyped
<1>2. ends[1] = asked + 1
  BY <1>1 DEF SegmentSize
<1>3. QED
  BY <1>1, <1>2 DEF Segment, RowsOf

LEMMA BlameStep ==
  ASSUME MidDrain = FALSE, IInv, Blame, [Next]_vars
  PROVE  Blame'
<1> USE DEF Blame, OnlyRefusedSetAside
<1>1. ASSUME NEW T \in SUBSET Stream, Archive(T) PROVE Blame'
  BY <1>1 DEF Archive
<1>2. ASSUME NEW F \in SUBSET Id, Flag(F) PROVE Blame'
  BY <1>2 DEF Flag
<1>3. ASSUME NEW s \in Stream, TableTurns(s) PROVE Blame'
  BY <1>3 DEF TableTurns
<1>4. CASE AskAll \/ AllStored \/ Advance \/ AllRefused \/ AskStream \/ StreamStored
  BY <1>4 DEF AskAll, AllStored, Advance, AllRefused, AskStream, StreamStored
<1>5. CASE StreamRefused
  BY <1>5 DEF StreamRefused
<1>6. CASE SegmentStored
  BY <1>6 DEF SegmentStored, Asking, Refusable
<1>7. CASE SegmentHalved
  <2>1. CASE SegmentSize = 1
    <3>1. Segment = {<<at, ends[1]>>}
      BY <1>7, <2>1, LoneRow DEF SegmentHalved, Asking, IInv, TypeOK
    <3>2. <<at, ends[1]>> \in RefusedRows \/ at \in refusing
      BY <1>7, <3>1 DEF SegmentHalved, Refusable
    <3>3. QED
      BY <1>7, <2>1, <3>2 DEF SegmentHalved, Asking
  <2>2. CASE SegmentSize # 1
    BY <1>7, <2>2 DEF SegmentHalved, Asking
  <2>3. QED
    BY <2>1, <2>2
<1>8. CASE TableBlamed \/ IsolationVain
  BY <1>8 DEF TableBlamed, IsolationVain, NextStream
<1>9. CASE IsolationDone
  BY <1>9 DEF IsolationDone, NothingAccepted
<1>10. CASE SetAside
  BY <1>10 DEF SetAside
<1>11. CASE Pass \/ Finish \/ ResendStored \/ ResendRefused \/ ResendFailed
  BY <1>11 DEF Pass, Finish, ResendStored, ResendRefused, ResendFailed, PutBack
<1>12. CASE AnswerLost \/ BudgetSpent \/ Restart \/ Start
  BY <1>12 DEF AnswerLost, BudgetSpent, Restart, Start
<1>13. CASE UNCHANGED vars
  BY <1>13 DEF vars
<1>14. QED
  BY <1>1, <1>2, <1>3, <1>4, <1>5, <1>6, <1>7, <1>8, <1>9, <1>10, <1>11, <1>12, <1>13 DEF Next, DrainStep, Fault

LEMMA BlameAlways == ASSUME MidDrain = FALSE PROVE Spec => []Blame
<1>1. Init => Blame
  BY DEF Init, Blame, OnlyRefusedSetAside
<1>2. IInv /\ Blame /\ [Next]_vars => Blame'
  BY BlameStep
<1>3. QED
  BY <1>1, <1>2, Invariant, PTL DEF Spec

\* isolate sets aside only rows the database refuses for themselves, however the
\* batch was cut and whichever tables refuse everything, as long as no table turns
\* while it is drained.
THEOREM RejectsRefused == ASSUME MidDrain = FALSE PROVE Spec => []OnlyRefusedSetAside
<1>1. Blame => OnlyRefusedSetAside
  BY DEF Blame
<1>2. Spec => []Blame
  BY BlameAlways
<1>3. QED
  BY <1>1, <1>2, PTL

(***************************************************************************)
(* Marks. A marked reading is owed to the cloud until its copy there       *)
(* carries the mark. When a cursor is about to pass readings of a batch,   *)
(* each marked one was marked when the batch was read, and its copy        *)
(* carries the mark, or was marked while the batch was on its way, or is a *)
(* row the cloud never takes.                                              *)
(***************************************************************************)
RefusedAway == cloud \cap RefusedRows = {}
ResendingOnly == phase # "resending" => resending = {}

ReadingsOut ==
  phase = "allSent" \/ (phase \in {"sent", "isolating"} /\ at = Readings)

MarksSeen ==
  ReadingsOut => \A i \in flagged : cursor[Readings] < i /\ i <= upto[Readings] => i \in read \cup overtaken

MarkAccounted(i) == i \in marked \cup overtaken \/ <<Readings, i>> \in RefusedRows
AccountedTo(hi) == \A i \in flagged : cursor[Readings] < i /\ i <= hi => MarkAccounted(i)

MarksPassed ==
  /\ phase \in {"advancing", "settingAside"} /\ at = Readings => AccountedTo(upto[Readings])
  /\ phase = "isolating" /\ at = Readings =>
       \A i \in flagged : cursor[Readings] < i /\ i <= asked => MarkAccounted(i) \/ i \in failed

Marks == RefusedAway /\ ResendingOnly /\ MarksSeen /\ MarksPassed /\ FlagOwed

LEMMA SentNotRefused ==
  ASSUME IInv
  PROVE  /\ AllStored => BatchOfAll \cap RefusedRows = {}
         /\ (\A s \in Stream : Batch(s) # {} => ~Refusable(Batch(s), s)) => BatchOfAll \cap RefusedRows = {}
BY DEF AllStored, BatchOfAll, Refusable

LEMMA AwayStep ==
  ASSUME IInv, RefusedAway, [Next]_vars
  PROVE  RefusedAway'
<1> USE DEF RefusedAway
<1>1. ASSUME NEW T \in SUBSET Stream, Archive(T) PROVE RefusedAway'
  BY <1>1 DEF Archive
<1>2. ASSUME NEW F \in SUBSET Id, Flag(F) PROVE RefusedAway'
  BY <1>2 DEF Flag
<1>3. ASSUME NEW s \in Stream, TableTurns(s) PROVE RefusedAway'
  BY <1>3 DEF TableTurns
<1>4. CASE AllStored
  BY <1>4, SentNotRefused DEF AllStored, Stored
<1>5. CASE StreamStored \/ SegmentStored
  BY <1>5 DEF StreamStored, SegmentStored, Stored, Refusable
<1>6. CASE ResendStored \/ ResendFailed \/ ResendRefused
  BY <1>6 DEF ResendStored, ResendFailed, ResendRefused, PutBack, Refusable
<1>7. CASE AnswerLost
  BY <1>7, SentNotRefused DEF AnswerLost, Stored, Refusable
<1>8. CASE AskAll \/ Advance \/ AllRefused \/ AskStream \/ StreamRefused
  BY <1>8 DEF AskAll, Advance, AllRefused, AskStream, StreamRefused
<1>9. CASE SegmentHalved \/ TableBlamed \/ IsolationVain \/ IsolationDone \/ SetAside \/ Pass
  BY <1>9 DEF SegmentHalved, TableBlamed, IsolationVain, NextStream, IsolationDone, SetAside, Pass
<1>10. CASE Finish \/ BudgetSpent \/ Restart \/ Start \/ UNCHANGED vars
  BY <1>10 DEF Finish, BudgetSpent, Restart, Start, vars
<1>11. QED
  BY <1>1, <1>2, <1>3, <1>4, <1>5, <1>6, <1>7, <1>8, <1>9, <1>10 DEF Next, DrainStep, Fault

LEMMA ResendingStep ==
  ASSUME ResendingOnly, [Next]_vars
  PROVE  ResendingOnly'
<1> USE DEF ResendingOnly
<1>1. ASSUME NEW T \in SUBSET Stream, Archive(T) PROVE ResendingOnly'
  BY <1>1 DEF Archive
<1>2. ASSUME NEW F \in SUBSET Id, Flag(F) PROVE ResendingOnly'
  BY <1>2 DEF Flag
<1>3. ASSUME NEW s \in Stream, TableTurns(s) PROVE ResendingOnly'
  BY <1>3 DEF TableTurns
<1>4. CASE AskAll \/ AllStored \/ Advance \/ AllRefused \/ AskStream \/ StreamStored \/ StreamRefused
  BY <1>4 DEF AskAll, AllStored, Advance, AllRefused, AskStream, StreamStored, StreamRefused
<1>5. CASE SegmentStored \/ SegmentHalved \/ TableBlamed \/ IsolationVain \/ IsolationDone \/ SetAside \/ Pass
  BY <1>5 DEF SegmentStored, SegmentHalved, TableBlamed, IsolationVain, NextStream, IsolationDone, SetAside, Pass, Asking
<1>6. CASE Finish \/ ResendStored \/ ResendFailed \/ ResendRefused
  BY <1>6 DEF Finish, ResendStored, ResendFailed, ResendRefused, PutBack
<1>7. CASE AnswerLost \/ BudgetSpent \/ Restart \/ Start \/ UNCHANGED vars
  BY <1>7 DEF AnswerLost, Asking, BudgetSpent, Restart, Start, vars
<1>8. QED
  BY <1>1, <1>2, <1>3, <1>4, <1>5, <1>6, <1>7 DEF Next, DrainStep, Fault

LEMMA SeenStep ==
  ASSUME IInv, MarksSeen, [Next]_vars
  PROVE  MarksSeen'
<1> USE DEF MarksSeen, ReadingsOut
<1>1. ASSUME NEW T \in SUBSET Stream, Archive(T) PROVE MarksSeen'
  BY <1>1 DEF Archive
<1>2. ASSUME NEW F \in SUBSET Id, Flag(F) PROVE MarksSeen'
  <2>1. ReadingsOut => \A i \in F : cursor[Readings] < i /\ i <= upto[Readings] => i \in InFlight
    <3>1. cursor[Readings] \in 0..MaxRows /\ upto[Readings] \in 0..MaxRows
      BY DEF IInv, TypeOK, RowsTyped
    <3>2. ReadingIds(Batch(Readings)) = {i \in Id : cursor[Readings] < i /\ i <= upto[Readings]}
      BY <3>1 DEF ReadingIds, Batch, RowsOf
    <3>3. QED
      BY <3>2 DEF InFlight
  <2>2. QED
    BY <1>2, <2>1 DEF Flag
<1>3. ASSUME NEW s \in Stream, TableTurns(s) PROVE MarksSeen'
  BY <1>3 DEF TableTurns
<1>4. CASE AskAll \/ AskStream
  BY <1>4 DEF AskAll, AskStream
<1>5. CASE AllStored \/ Advance \/ AllRefused \/ StreamStored \/ StreamRefused
  BY <1>5 DEF AllStored, Advance, AllRefused, StreamStored, StreamRefused
<1>6. CASE SegmentStored \/ SegmentHalved \/ TableBlamed \/ IsolationVain \/ IsolationDone \/ SetAside \/ Pass
  BY <1>6 DEF SegmentStored, SegmentHalved, TableBlamed, IsolationVain, NextStream, IsolationDone, SetAside, Pass, Asking
<1>7. CASE Finish \/ ResendStored \/ ResendFailed \/ ResendRefused
  BY <1>7 DEF Finish, ResendStored, ResendFailed, ResendRefused, PutBack
<1>8. CASE AnswerLost \/ BudgetSpent \/ Restart \/ Start \/ UNCHANGED vars
  BY <1>8 DEF AnswerLost, BudgetSpent, Restart, Start, vars
<1>9. QED
  BY <1>1, <1>2, <1>3, <1>4, <1>5, <1>6, <1>7, <1>8 DEF Next, DrainStep, Fault

\* What is stored out of a batch carries the marks it was read with.
LEMMA StoredAccounts ==
  ASSUME IInv, MarksSeen, ReadingsOut, NEW R, Stored(R), UNCHANGED <<flagged, cursor, overtaken>>,
         NEW i \in flagged, cursor[Readings] < i, i <= upto[Readings],
         <<Readings, i>> \in R \/ MarkAccounted(i)
  PROVE  MarkAccounted(i)'
<1>1. i \in Id
  BY DEF IInv, TypeOK, FreezesTyped
<1>2. i \in read \cup overtaken
  BY DEF MarksSeen
<1>3. QED
  BY <1>1, <1>2 DEF Stored, MarkAccounted, ReadingIds

LEMMA PassedStep ==
  ASSUME IInv, Blame, MarksSeen, MarksPassed, [Next]_vars
  PROVE  MarksPassed'
<1> USE DEF MarksPassed, AccountedTo
<1>1. ASSUME NEW T \in SUBSET Stream, Archive(T) PROVE MarksPassed'
  BY <1>1 DEF Archive, MarkAccounted
<1>2. ASSUME NEW F \in SUBSET Id, Flag(F) PROVE MarksPassed'
  <2>1. CASE phase = "isolating" /\ at = Readings
    <3>1. cursor[Readings] \in 0..MaxRows /\ upto[Readings] \in 0..MaxRows /\ asked \in 0..MaxRows
      BY DEF IInv, TypeOK, RowsTyped, IsolationTyped
    <3>2. ReadingIds(Batch(Readings)) = {i \in Id : cursor[Readings] < i /\ i <= upto[Readings]}
      BY <3>1 DEF ReadingIds, Batch, RowsOf
    <3>3. asked <= upto[Readings]
      <4>1. ends # <<>>
        BY <1>2, <2>1 DEF Flag, Waiting, Asking
      <4>2. asked < ends[1] /\ ends[1] <= ends[Len(ends)] /\ ends[1] \in 0..MaxRows
        BY <4>1, SegmentHead, LastSegment DEF IInv, TypeOK
      <4>3. ends[Len(ends)] = upto[Readings]
        BY <2>1, <4>1 DEF IInv, IsolationCovers
      <4>4. QED
        BY <3>1, <4>2, <4>3
    <3>4. \A i \in F : cursor[Readings] < i /\ i <= asked => i \in InFlight
      BY <2>1, <3>1, <3>2, <3>3 DEF InFlight
    <3>5. QED
      BY <1>2, <2>1, <3>4 DEF Flag, MarkAccounted
  <2>2. CASE ~(phase = "isolating" /\ at = Readings)
    BY <1>2, <2>2 DEF Flag, Waiting, Asking, MarkAccounted
  <2>3. QED
    BY <2>1, <2>2
<1>3. ASSUME NEW s \in Stream, TableTurns(s) PROVE MarksPassed'
  BY <1>3 DEF TableTurns, MarkAccounted
<1>4. CASE AllStored
  <2>1. ReadingsOut /\ Stored(BatchOfAll) /\ UNCHANGED <<flagged, cursor, overtaken, upto>> /\ phase' = "advancing"
    BY <1>4 DEF AllStored, ReadingsOut
  <2>2. \A i \in flagged : cursor[Readings] < i /\ i <= upto[Readings] => <<Readings, i>> \in BatchOfAll
    <3>1. cursor[Readings] \in 0..MaxRows /\ upto[Readings] \in 0..MaxRows /\ flagged \subseteq Id
      BY DEF IInv, TypeOK, RowsTyped, FreezesTyped
    <3>2. ASSUME NEW i \in flagged, cursor[Readings] < i, i <= upto[Readings]
          PROVE  <<Readings, i>> \in Batch(Readings)
      <4>1. i \in cursor[Readings] + 1 .. upto[Readings]
        BY <3>1, <3>2
      <4>2. QED
        BY <4>1 DEF Batch, RowsOf
    <3>3. Readings \in Stream
      BY ParametersAssumption
    <3>4. QED
      BY <3>2, <3>3 DEF BatchOfAll
  <2>3. QED
    BY <2>1, <2>2, StoredAccounts
<1>5. CASE Advance
  <2>1. at \in Stream
    BY <1>5 DEF Advance, IInv, TypeOK, DrainTyped
  <2>2. phase' = "all" \/ at' # Readings
    BY <1>5, <2>1 DEF Advance
  <2>3. phase' \in {"all", "advancing"}
    BY <1>5 DEF Advance
  <2>4. QED
    BY <2>2, <2>3
<1>6. CASE StreamRefused
  <2>1. cursor[at] \in 0..MaxRows /\ flagged \subseteq Id
    BY <1>6 DEF StreamRefused, IInv, TypeOK, RowsTyped, DrainTyped, FreezesTyped
  <2>2. QED
    BY <1>6, <2>1 DEF StreamRefused
<1>7. CASE SegmentStored
  <2>1. CASE at = Readings
    <3>1. /\ ReadingsOut /\ Stored(Segment) /\ phase' = "isolating" /\ asked' = ends[1]
          /\ UNCHANGED <<flagged, cursor, overtaken, upto, failed, at>>
      BY <1>7, <2>1 DEF SegmentStored, Asking, ReadingsOut
    <3>2. /\ asked \in 0..MaxRows /\ ends[1] \in 0..MaxRows /\ asked < ends[1] /\ ends[1] <= upto[Readings]
          /\ upto[Readings] \in 0..MaxRows
      <4>1. ends # <<>> /\ ends[Len(ends)] = upto[Readings]
        BY <1>7, <2>1 DEF SegmentStored, Asking, IInv, IsolationCovers
      <4>2. QED
        BY <4>1, SegmentHead, LastSegment DEF IInv, TypeOK, RowsTyped
    <3>3. \A i \in flagged : asked < i /\ i <= ends[1] => <<Readings, i>> \in Segment
      BY <2>1, <3>2 DEF Segment, RowsOf, IInv, TypeOK, FreezesTyped
    <3>4. ASSUME NEW i \in flagged, cursor[Readings] < i, i <= ends[1]
          PROVE  MarkAccounted(i)' \/ i \in failed
      <4>1. i \in Id /\ i <= upto[Readings]
        BY <3>2, <3>4 DEF IInv, TypeOK, FreezesTyped
      <4>2. CASE i <= asked
        <5>1. MarkAccounted(i) \/ i \in failed
          BY <1>7, <2>1, <3>4, <4>2 DEF SegmentStored, Asking
        <5>2. QED
          BY <3>1, <3>4, <4>1, <5>1, StoredAccounts
      <4>3. CASE asked < i
        BY <3>1, <3>3, <3>4, <4>1, <4>3, StoredAccounts
      <4>4. QED
        BY <3>2, <4>1, <4>2, <4>3
    <3>5. QED
      BY <3>1, <3>4
  <2>2. CASE at # Readings
    BY <1>7, <2>2 DEF SegmentStored, Asking
  <2>3. QED
    BY <2>1, <2>2
<1>8. CASE SegmentHalved
  <2>1. CASE SegmentSize = 1
    <3>1. /\ ends[1] = asked + 1 /\ asked \in 0..MaxRows /\ flagged \subseteq Id
      <4>1. ends[1] \in 0..MaxRows /\ asked \in 0..MaxRows
        BY <1>8, SegmentHead DEF SegmentHalved, Asking, IInv, TypeOK
      <4>2. QED
        BY <2>1, <4>1 DEF SegmentSize, IInv, TypeOK, FreezesTyped
    <3>2. \A i \in flagged : i <= ends[1] => i <= asked \/ i = ends[1]
      BY <3>1
    <3>3. QED
      BY <1>8, <2>1, <3>2 DEF SegmentHalved, Asking, MarkAccounted
  <2>2. CASE SegmentSize # 1
    BY <1>8, <2>2 DEF SegmentHalved, Asking, MarkAccounted
  <2>3. QED
    BY <2>1, <2>2
<1>9. CASE IsolationDone
  <2>1. asked = upto[at] /\ \A i \in failed : <<at, i>> \in RefusedRows
    BY <1>9 DEF IsolationDone, IInv, IsolationCovers, Blame, NothingAccepted
  <2>2. QED
    BY <1>9, <2>1 DEF IsolationDone, MarkAccounted
<1>10. CASE SetAside
  BY <1>10 DEF SetAside, MarkAccounted
<1>11. CASE AskAll \/ AllRefused \/ AskStream \/ StreamStored \/ TableBlamed \/ IsolationVain \/ Pass
  BY <1>11 DEF AskAll, AllRefused, AskStream, StreamStored, TableBlamed, IsolationVain, NextStream, Pass
<1>12. CASE Finish \/ ResendStored \/ ResendFailed \/ ResendRefused
  BY <1>12 DEF Finish, ResendStored, ResendFailed, ResendRefused, PutBack
<1>13. CASE AnswerLost \/ BudgetSpent \/ Restart \/ Start
  BY <1>13 DEF AnswerLost, BudgetSpent, Restart, Start
<1>14. CASE UNCHANGED vars
  BY <1>14 DEF vars, MarkAccounted
<1>15. QED
  BY <1>1, <1>2, <1>3, <1>4, <1>5, <1>6, <1>7, <1>8, <1>9, <1>10, <1>11, <1>12, <1>13, <1>14 DEF Next, DrainStep, Fault

\* A cursor passes marked readings only when each is accounted for.
LEMMA OwedPassed ==
  ASSUME IInv, RefusedAway, FlagOwed, cursor' = [cursor EXCEPT ![at] = upto[at]],
         at \in Stream, UNCHANGED <<cloud, marked, flagged, resend, resending, overtaken, forgot>>,
         at = Readings => AccountedTo(upto[Readings])
  PROVE  FlagOwed'
<1>1. /\ cursor \in [Stream -> 0..MaxRows] /\ Readings \in Stream /\ upto[Readings] \in 0..MaxRows
      /\ flagged \subseteq Id
  BY ParametersAssumption DEF IInv, TypeOK, RowsTyped, FreezesTyped
<1>2. CASE at # Readings
  BY <1>1, <1>2 DEF FlagOwed
<1>3. CASE at = Readings
  <2>1. cursor'[Readings] = upto[Readings]
    BY <1>1, <1>3
  <2> SUFFICES ASSUME NEW i \in flagged
               PROVE  (\/ <<Readings, i>> \notin cloud \/ i \in marked
                       \/ i > cursor[Readings]
                       \/ i \in resend \cup resending \cup overtaken \cup forgot)'
    BY DEF FlagOwed
  <2>2. CASE i <= cursor[Readings]
    BY <2>2, <1>1 DEF FlagOwed
  <2>3. CASE i > upto[Readings]
    BY <2>3, <2>1
  <2>4. CASE cursor[Readings] < i /\ i <= upto[Readings]
    BY <2>4, <1>3 DEF AccountedTo, MarkAccounted, RefusedAway
  <2>5. QED
    BY <1>1, <2>2, <2>3, <2>4
<1>4. QED
  BY <1>2, <1>3

\* What is stored out of a batch is still above the cursor.
LEMMA OwedStored ==
  ASSUME IInv, FlagOwed, NEW R, Stored(R), UNCHANGED <<cursor, flagged, resend, resending, overtaken, forgot>>,
         \A i \in Id : <<Readings, i>> \in R => cursor[Readings] < i
  PROVE  FlagOwed'
<1>1. flagged \subseteq Id
  BY DEF IInv, TypeOK, FreezesTyped
<1>2. QED
  BY <1>1 DEF FlagOwed, Stored, ReadingIds

LEMMA BatchAbove ==
  ASSUME IInv
  PROVE  /\ \A s \in Stream, i \in Id : <<Readings, i>> \in Batch(s) => cursor[Readings] < i
         /\ \A i \in Id : <<Readings, i>> \in BatchOfAll => cursor[Readings] < i
         /\ Asking => \A i \in Id : <<Readings, i>> \in Segment => cursor[Readings] < i
<1>1. \A s \in Stream : cursor[s] \in 0..MaxRows /\ upto[s] \in 0..MaxRows
  BY DEF IInv, TypeOK, RowsTyped
<1>2. ASSUME NEW s \in Stream, NEW i \in Id, <<Readings, i>> \in Batch(s)
      PROVE  cursor[Readings] < i
  <2>1. s = Readings /\ i \in cursor[s] + 1 .. upto[s]
    BY <1>2 DEF Batch, RowsOf
  <2>2. QED
    BY <1>1, <2>1
<1>3. \A i \in Id : <<Readings, i>> \in BatchOfAll => cursor[Readings] < i
  BY <1>2 DEF BatchOfAll
<1>4. ASSUME Asking, NEW i \in Id, <<Readings, i>> \in Segment
      PROVE  cursor[Readings] < i
  <2>1. at = Readings /\ i \in asked + 1 .. ends[1]
    BY <1>4 DEF Segment, RowsOf
  <2>2. cursor[at] <= asked /\ asked \in 0..MaxRows /\ ends[1] \in 0..MaxRows /\ Readings \in Stream
    BY <1>4, SegmentHead, ParametersAssumption DEF Asking, IInv, TypeOK, IsolationCovers
  <2>3. QED
    BY <1>1, <2>1, <2>2
<1>5. QED
  BY <1>2, <1>3, <1>4

LEMMA OwedStep ==
  ASSUME IInv, Marks, [Next]_vars
  PROVE  FlagOwed'
<1> USE DEF Marks
<1>1. ASSUME NEW T \in SUBSET Stream, Archive(T) PROVE FlagOwed'
  BY <1>1 DEF Archive, FlagOwed
<1>2. ASSUME NEW F \in SUBSET Id, Flag(F) PROVE FlagOwed'
  <2>1. cursor[Readings] \in 0..MaxRows /\ flagged \subseteq Id
    BY ParametersAssumption DEF IInv, TypeOK, RowsTyped, FreezesTyped
  <2>2. \A i \in F : i > cursor[Readings] \/ i \in Uploaded(F)
    BY <2>1 DEF Uploaded
  <2>3. QED
    BY <1>2, <2>2 DEF Flag, FlagOwed
<1>3. ASSUME NEW s \in Stream, TableTurns(s) PROVE FlagOwed'
  BY <1>3 DEF TableTurns, FlagOwed
<1>4. CASE AllStored
  BY <1>4, BatchAbove, OwedStored DEF AllStored
<1>5. CASE SegmentStored
  BY <1>5, BatchAbove, OwedStored DEF SegmentStored
<1>6. CASE AnswerLost
  <2>1. UNCHANGED <<cursor, flagged, resend, resending, overtaken, forgot>>
    BY <1>6 DEF AnswerLost
  <2>2. UNCHANGED <<cloud, marked>> => FlagOwed'
    BY <2>1 DEF FlagOwed
  <2>3. phase = "sent" => at \in Stream
    BY DEF IInv, TypeOK, DrainTyped
  <2>4. (phase = "sent" /\ Stored(Batch(at))) => FlagOwed'
    BY <2>1, <2>3, BatchAbove, OwedStored
  <2>5. Stored(BatchOfAll) => FlagOwed'
    BY <2>1, BatchAbove, OwedStored
  <2>6. (Asking /\ Stored(Segment)) => FlagOwed'
    BY <2>1, BatchAbove, OwedStored
  <2>7. QED
    BY <1>6, <2>2, <2>4, <2>5, <2>6 DEF AnswerLost
<1>7. CASE Advance \/ Pass
  <2>1. at \in Stream /\ cursor' = [cursor EXCEPT ![at] = upto[at]] /\ phase \in {"advancing", "settingAside"}
    BY <1>7 DEF Advance, Pass, IInv, TypeOK, DrainTyped
  <2>2. UNCHANGED <<cloud, marked, flagged, resend, resending, overtaken, forgot>>
    BY <1>7 DEF Advance, Pass
  <2>3. QED
    BY <2>1, <2>2, OwedPassed DEF MarksPassed
<1>8. CASE StreamStored
  <2>1. at \in Stream /\ cursor' = [cursor EXCEPT ![at] = upto[at]] /\ phase = "sent" /\ Stored(Batch(at))
    BY <1>8 DEF StreamStored, IInv, TypeOK, DrainTyped
  <2>2. UNCHANGED <<flagged, resend, resending, overtaken, forgot>>
    BY <1>8 DEF StreamStored
  <2>3. /\ cursor \in [Stream -> 0..MaxRows] /\ Readings \in Stream /\ upto[Readings] \in 0..MaxRows
        /\ flagged \subseteq Id
    BY ParametersAssumption DEF IInv, TypeOK, RowsTyped, FreezesTyped
  <2>4. CASE at # Readings
    <3>1. cursor'[Readings] = cursor[Readings] /\ ReadingIds(Batch(at)) = {}
      BY <2>1, <2>3, <2>4 DEF ReadingIds, Batch, RowsOf
    <3>2. \A i \in Id : <<Readings, i>> \notin Batch(at)
      BY <3>1 DEF ReadingIds
    <3>3. QED
      BY <2>1, <2>2, <2>3, <3>1, <3>2 DEF FlagOwed, Stored
  <2>5. CASE at = Readings
    <3>1. cursor'[Readings] = upto[Readings]
      BY <2>1, <2>3, <2>5
    <3> SUFFICES ASSUME NEW i \in flagged
                 PROVE  (\/ <<Readings, i>> \notin cloud \/ i \in marked
                         \/ i > cursor[Readings]
                         \/ i \in resend \cup resending \cup overtaken \cup forgot)'
      BY <2>2 DEF FlagOwed
    <3>2. ReadingIds(Batch(at)) = {j \in Id : cursor[Readings] < j /\ j <= upto[Readings]}
      BY <2>3, <2>5 DEF ReadingIds, Batch, RowsOf
    <3>3. i \in Id
      BY <2>3
    <3>4. CASE i <= cursor[Readings]
      <4>1. i \notin ReadingIds(Batch(at))
        BY <3>2, <3>4, <2>3
      <4>2. <<Readings, i>> \notin Batch(at)
        BY <4>1, <3>3 DEF ReadingIds
      <4>3. <<Readings, i>> \notin cloud \/ i \in marked \/ i \in resend \cup resending \cup overtaken \cup forgot
        BY <2>3, <3>3, <3>4 DEF FlagOwed
      <4>4. QED
        BY <2>1, <2>2, <4>1, <4>2, <4>3 DEF Stored
    <3>5. CASE i > upto[Readings]
      BY <3>1, <3>5
    <3>6. CASE cursor[Readings] < i /\ i <= upto[Readings]
      <4>1. i \in read \cup overtaken
        BY <2>1, <2>5, <3>6 DEF MarksSeen, ReadingsOut
      <4>2. i \in ReadingIds(Batch(at))
        BY <3>2, <3>3, <3>6
      <4>3. QED
        BY <2>1, <2>2, <4>1, <4>2 DEF Stored
    <3>7. QED
      BY <2>3, <3>3, <3>4, <3>5, <3>6
  <2>6. QED
    BY <2>4, <2>5
<1>9. CASE ResendStored \/ ResendFailed \/ ResendRefused
  <2>1. UNCHANGED <<cursor, flagged, overtaken, forgot>> /\ resending \subseteq resend' \cup marked'
        /\ resend \subseteq resend' /\ marked \subseteq marked'
    BY <1>9 DEF ResendStored, ResendFailed, ResendRefused, PutBack
  <2>2. \A i : <<Readings, i>> \in cloud' => <<Readings, i>> \in cloud \/ i \in marked'
    BY <1>9 DEF ResendStored, ResendFailed, ResendRefused, AgainRows
  <2>3. QED
    BY <2>1, <2>2 DEF FlagOwed
<1>10. CASE Finish
  BY <1>10 DEF Finish, FlagOwed, ResendingOnly
<1>11. CASE Restart
  BY <1>11 DEF Restart, FlagOwed
<1>12. CASE AskAll \/ AllRefused \/ AskStream \/ StreamRefused
  BY <1>12 DEF AskAll, AllRefused, AskStream, StreamRefused, FlagOwed
<1>13. CASE SegmentHalved \/ TableBlamed \/ IsolationVain \/ IsolationDone \/ SetAside
  BY <1>13 DEF SegmentHalved, TableBlamed, IsolationVain, NextStream, IsolationDone, SetAside, FlagOwed
<1>14. CASE BudgetSpent \/ Start \/ UNCHANGED vars
  BY <1>14 DEF BudgetSpent, Start, vars, FlagOwed
<1>15. QED
  BY <1>1, <1>2, <1>3, <1>4, <1>5, <1>6, <1>7, <1>8, <1>9, <1>10, <1>11, <1>12, <1>13, <1>14 DEF Next, DrainStep, Fault

\* A reading marked after the fact is owed to the cloud until its copy there
\* carries the mark, whichever answers are lost or refused: it is above the cursor
\* or to be sent again, unless its upload overtook it or a restart forgot it.
THEOREM MarksOwed == ASSUME MidDrain = FALSE PROVE Spec => []FlagOwed
<1>1. Init => Marks
  BY DEF Init, Marks, RefusedAway, ResendingOnly, MarksSeen, ReadingsOut, MarksPassed, AccountedTo, FlagOwed
<1>2. IInv /\ Blame /\ Marks /\ [Next]_vars => Marks'
  BY AwayStep, ResendingStep, SeenStep, PassedStep, OwedStep DEF Marks
<1>3. Spec => []Blame
  BY BlameAlways
<1>4. Marks => FlagOwed
  BY DEF Marks
<1>5. QED
  BY <1>1, <1>2, <1>3, <1>4, Invariant, PTL DEF Spec

=============================================================================
