-------------------------------- MODULE Wal --------------------------------
(***************************************************************************)
(* The write-ahead log on disk (src/storage/wal.rs, src/storage/record.rs) *)
(* as a value.  The contents of all segment files are one set of entries:  *)
(* the frame written as the off-th frame of segment seg.  An offset is the *)
(* ordinal of the frame in its file.  A frame carries the fields that the  *)
(* record's payload encodes: a lease prefix (consumer, expire, retries), a *)
(* retry byte, and the user's payload, which is the whole payload of a     *)
(* Created record and the suffix of one that compaction consolidated.      *)
(***************************************************************************)
EXTENDS BucketOps, CacheOps

CONSTANTS Consumers, NoConsumer

ASSUME ConsumersAssumption == NoConsumer \notin Consumers

Terminal == {"Acked", "DeadLettered"}
OpType   == {"Created", "Leased", "Nacked", "Expired"} \cup Terminal

NoData == 0             \* the empty user payload; pushes carry 1, 2, ...

Frame == [id : Nat, op : OpType, priority : Priorities, data : Nat, retries : Nat,
          consumer : Consumers \cup {NoConsumer}, expire : Nat]

Entry == [seg : Nat, off : Nat, frame : Frame]

CreatedFrame(id, p, data) ==
  [id |-> id, op |-> "Created", priority |-> p, data |-> data, retries |-> 0,
   consumer |-> NoConsumer, expire |-> 0]

\* Mutants: the lease record without its owner, and without the retries so far.
LeasedFrameNoOwner(t, c, expire) ==
  [id |-> t.id, op |-> "Leased", priority |-> t.priority, data |-> NoData,
   retries |-> t.retries, consumer |-> NoConsumer, expire |-> expire]

LeasedFrameNoRetries(t, c, expire) ==
  [id |-> t.id, op |-> "Leased", priority |-> t.priority, data |-> NoData,
   retries |-> 0, consumer |-> c, expire |-> expire]

LeasedFrame(t, c, expire) ==
  [id |-> t.id, op |-> "Leased", priority |-> t.priority, data |-> NoData,
   retries |-> t.retries, consumer |-> c, expire |-> expire]

\* Nacked, Expired and DeadLettered: the payload is the retry byte alone.
FailedFrame(id, op, p, retries) ==
  [id |-> id, op |-> op, priority |-> p, data |-> NoData, retries |-> retries,
   consumer |-> NoConsumer, expire |-> 0]

AckedFrame(id, p) ==
  [id |-> id, op |-> "Acked", priority |-> p, data |-> NoData, retries |-> 0,
   consumer |-> NoConsumer, expire |-> 0]

-----------------------------------------------------------------------------
Loc(e) == <<e.seg, e.off>>

LocLess(a, b) == a[1] < b[1] \/ (a[1] = b[1] /\ a[2] < b[2])

\* A scan of a segment stops at its first frame that does not decode.  torn
\* holds the locations where a write was cut short.
Readable(log, torn) ==
  {e \in log : \A t \in torn : ~(t[1] = e.seg /\ t[2] <= e.off)}

InSegments(log, segs) == {e \in log : e.seg \in segs}

IdsIn(L) == {e.frame.id : e \in L}

Of(L, id) == {e \in L : e.frame.id = id}

\* The entry of L with the largest, and with the smallest, location.
Last(L)  == CHOOSE e \in L : \A f \in L : ~LocLess(Loc(e), Loc(f))
First(L) == CHOOSE e \in L : \A f \in L : ~LocLess(Loc(f), Loc(e))

\* No two frames at one place, and no gap in front of a frame.
Unique(L) == \A e, f \in L : Loc(e) = Loc(f) => e = f
Dense(L)  == \A e \in L : e.off >= 1 /\ \A k \in 1..e.off : \E f \in L : Loc(f) = <<e.seg, k>>

-----------------------------------------------------------------------------
(* execute_compaction_phase1 over the entries L of the closed segments.     *)

\* latest_records: an Acked or DeadLettered record forgets its task.
SurvivingIds(L) == {id \in IdsIn(L) : Last(Of(L, id)).frame.op \notin Terminal}

\* created_payloads: the payload of the Created record, or else the one that
\* the first record since the last terminal one has embedded.
SinceTerminal(L, id) ==
  {e \in Of(L, id) : \A f \in Of(L, id) :
     f.frame.op \in Terminal => LocLess(Loc(f), Loc(e))}

CreatedPayload(L, id) ==
  LET S == SinceTerminal(L, id)
      C == {e \in S : e.frame.op = "Created"}
  IN  IF C # {} THEN Last(C).frame.data ELSE First(S).frame.data

\* Mutant: the first record is kept, which has the payload.
ConsolidatedFirst(L, id) == First(SinceTerminal(L, id)).frame

Consolidated(L, id) ==
  LET f == Last(Of(L, id)).frame
  IN  IF f.op = "Created" THEN f ELSE [f EXCEPT !.data = CreatedPayload(L, id)]

\* Survivors are written in the order of their ids.
NewOffsets(L) ==
  [id \in SurvivingIds(L) |-> Cardinality({j \in SurvivingIds(L) : j <= id})]

Compacted(L) ==
  {[seg |-> 1, off |-> NewOffsets(L)[id], frame |-> Consolidated(L, id)] :
     id \in SurvivingIds(L)}

-----------------------------------------------------------------------------
(* The user payload that pop_and_lease extracts from a frame it has read.   *)
(* An Acked record has no payload; the payload of a DeadLettered record is  *)
(* its retry byte, which no user sent.                                      *)
RetryByte == 255

UserPayload(f) == CASE f.op = "DeadLettered" -> RetryByte
                    [] f.op = "Acked"        -> NoData
                    [] OTHER                 -> f.data

=============================================================================
