--------------------------------- MODULE Wal ---------------------------------
(***************************************************************************)
(* The write-ahead log of internal/wal: WAL (wal.go, src/unnamed/part_014) *)
(* over Segment files (segment.go).  The disk is a set of files <id>.wal, *)
(* each a sequence of frames [length][crc][data].  The process holds the  *)
(* list of open segments, the next segment id, each segment's size and    *)
(* its buffered writer; a crash loses all of that, and New rebuilds it    *)
(* from the directory before the queue manager replays the log.           *)
(*                                                                         *)
(* A record is the number of the Write that carried it.  Sizes count      *)
(* frames (SegmentSize is the segment size in frames).  Fsync is on, the  *)
(* shipped default, so a frame whose Write returned is on disk.           *)
(***************************************************************************)
EXTENDS Naturals, Sequences, FiniteSets, SequencesExt, TLC

CONSTANTS
    SegmentSize,     \* Config.SegmentSize, in frames
    MaxWrites,       \* bound on WAL.Write calls
    MaxCrashes,      \* bound on crashes
    MaxFaults,       \* bound on failed flushes and fsyncs
    MaxCompactions,  \* bound on WAL.Compact calls
    Tears            \* partial frames a crash or a failed flush may leave

ASSUME SegmentSize \in Nat \ {0}
ASSUME Tears \subseteq {"short", "garbled"}

Recs == 1..MaxWrites

\* A frame as found in a file: whole; cut short (the file ends inside it);
\* or of full length with data that fails the checksum (blocks allocated
\* but not written before a power loss).
Frame == [rec : Recs, state : {"whole", "short", "garbled"}]
Whole(n) == [rec |-> n, state |-> "whole"]

VARIABLES
    files,        \* segment id -> the frames of file <id>.wal
    segs,         \* WAL.segments, as ids; the last one is activeSegment
    nextId,       \* WAL.nextSegmentID
    size,         \* Segment.size of each open segment, in frames
    broken,       \* open segments whose bufio.Writer holds a write error
    status,       \* "down", "up", or "failed" (New or the replay failed)
    compacting,   \* Compact has written its segment (id nextId), not yet swapped
    written,      \* WAL.Write calls so far
    acked,        \* records whose Write returned nil, in order
    refused,      \* Writes refused by an error left by an earlier Write
    dropped,      \* records a Compact chose not to keep
    crashes, faults, compactions

vars == <<files, segs, nextId, size, broken, status, compacting, written,
          acked, refused, dropped, crashes, faults, compactions>>

Active == Last(segs)

\* loadSegments: the ids of the *.wal files, sorted.
SortedIds == SetToSortSeq(DOMAIN files, <)

\* Mutant: nextSegmentID taken from the first id rather than the last.
LoadedNextIdFromFirst(ids) == Head(ids) + 1

\* loadSegments: nextSegmentID is one past the last id.
LoadedNextId(ids) == Last(ids) + 1

\* createSegment / NewSegment: O_CREATE|O_APPEND opens the file with the
\* next id, keeping what it holds; size is taken from stat.
OpenSegment(id) == files @@ (id :> <<>>)

-----------------------------------------------------------------------------
(* SegmentReader.Read, repeated until it returns an error, and WAL.Replay. *)

\* io.EOF at the end of the file; ErrCorruptedData on a checksum mismatch;
\* a frame cut short makes io.ReadFull fail with ErrUnexpectedEOF, which
\* Read wraps in a different error ("short").
RECURSIVE ReadSegment(_)
ReadSegment(fs) ==
    IF fs = <<>> THEN [recs |-> <<>>, err |-> "eof"]
    ELSE CASE Head(fs).state = "whole" ->
                  LET r == ReadSegment(Tail(fs))
                  IN  [r EXCEPT !.recs = <<Head(fs).rec>> \o @]
           [] Head(fs).state = "garbled" -> [recs |-> <<>>, err |-> "corrupt"]
           [] OTHER -> [recs |-> <<>>, err |-> "short"]

\* WAL.Replay over the segments in list order: ErrCorruptedData skips the
\* rest of a segment; any other error ends the replay with that error.
RECURSIVE Replay(_)
Replay(ids) ==
    IF ids = <<>> THEN [recs |-> <<>>, failed |-> FALSE]
    ELSE LET r    == ReadSegment(files[Head(ids)])
             rest == Replay(Tail(ids))
         IN  IF r.err = "short" THEN [recs |-> r.recs, failed |-> TRUE]
             ELSE [recs |-> r.recs \o rest.recs, failed |-> rest.failed]

\* What a restart would replay now.
View == Replay(SortedIds).recs

-----------------------------------------------------------------------------
Init ==
    /\ files = [i \in {} |-> <<>>]
    /\ segs = <<>>
    /\ nextId = 0
    /\ size = [i \in {} |-> 0]
    /\ broken = {}
    /\ status = "down"
    /\ compacting = FALSE
    /\ written = 0
    /\ acked = <<>>
    /\ refused = 0
    /\ dropped = {}
    /\ crashes = 0 /\ faults = 0 /\ compactions = 0

\* New: loadSegments opens the files in id order, makes the last one active
\* and sets nextSegmentID past it (size from stat); with no file,
\* createSegment makes segment 0.  Then the log is replayed; an error makes
\* Manager.Start, and so the server, fail.
Start ==
    /\ status = "down"
    /\ LET ids == SortedIds
       IN  IF ids = <<>>
           THEN /\ files' = [i \in {0} |-> <<>>]
                /\ segs' = <<0>>
                /\ nextId' = 1
                /\ size' = [i \in {0} |-> 0]
                /\ status' = "up"
           ELSE /\ segs' = ids
                /\ nextId' = LoadedNextId(ids)
                /\ size' = [i \in DOMAIN files |-> Len(files[i])]
                /\ status' = IF Replay(ids).failed THEN "failed" ELSE "up"
                /\ UNCHANGED files
    /\ UNCHANGED <<broken, compacting, written, acked, refused, dropped,
                   crashes, faults, compactions>>

\* Segment.IsFull.
IsFull(id) == size[id] >= SegmentSize

\* Segment.Write of record n to segment id, whose file and size are f0 and
\* s0: the frame goes into the bufio.Writer, then Flush, then fsync, then
\* size += frame.  A Flush that fails may have written part of the frame
\* and leaves its error in the writer, which refuses every later Write; an
\* fsync that fails leaves the whole frame in the file.  Both return an
\* error and leave size alone.
SegmentWrite(id, n, f0, s0) ==
    \/ /\ id \notin broken
       /\ files' = [f0 EXCEPT ![id] = Append(@, Whole(n))]
       /\ size' = [s0 EXCEPT ![id] = @ + 1]
       /\ acked' = Append(acked, n)
       /\ UNCHANGED <<broken, refused, faults>>
    \/ /\ id \in broken
       /\ refused' = refused + 1
       /\ files' = f0 /\ size' = s0
       /\ UNCHANGED <<broken, acked, faults>>
    \/ /\ id \notin broken /\ faults < MaxFaults
       /\ \E part \in {<<>>} \cup {<<[rec |-> n, state |-> t]>> :
                                      t \in Tears \cap {"short"}} :
              files' = [f0 EXCEPT ![id] = @ \o part]
       /\ broken' = broken \cup {id}
       /\ size' = s0 /\ faults' = faults + 1
       /\ UNCHANGED <<acked, refused>>
    \/ /\ id \notin broken /\ faults < MaxFaults
       /\ files' = [f0 EXCEPT ![id] = Append(@, Whole(n))]
       /\ size' = s0 /\ faults' = faults + 1
       /\ UNCHANGED <<broken, acked, refused>>

\* WAL.Write under w.mu (so never during a Compact): createSegment when the
\* active segment IsFull, then Segment.Write on the active segment.
Write ==
    /\ status = "up" /\ ~compacting
    /\ written < MaxWrites
    /\ LET rot == IsFull(Active)
           id  == IF rot THEN nextId ELSE Active
           f0  == IF rot THEN OpenSegment(id) ELSE files
           s0  == IF rot THEN (id :> Len(f0[id])) @@ size ELSE size
       IN  /\ segs' = IF rot THEN Append(segs, id) ELSE segs
           /\ nextId' = IF rot THEN nextId + 1 ELSE nextId
           /\ written' = written + 1
           /\ SegmentWrite(id, written + 1, f0, s0)
    /\ UNCHANGED <<status, compacting, dropped, crashes, compactions>>

\* The process dies (a power loss when a tear is left).  A Write in
\* progress may leave part of its frame in the active segment.
Crash ==
    /\ status = "up"
    /\ crashes < MaxCrashes
    /\ \E tear \in {"none"} \cup Tears :
        IF tear = "none" THEN UNCHANGED <<files, written>>
        ELSE /\ written < MaxWrites /\ ~compacting /\ Active \notin broken
             /\ files' = [files EXCEPT ![Active] =
                              Append(@, [rec |-> written + 1, state |-> tear])]
             /\ written' = written + 1
    /\ status' = "down"
    /\ segs' = <<>> /\ size' = [i \in {} |-> 0] /\ broken' = {}
    /\ compacting' = FALSE
    /\ crashes' = crashes + 1
    /\ UNCHANGED <<nextId, acked, refused, dropped, faults, compactions>>

-----------------------------------------------------------------------------
(* WAL.Compact(activeJobIDs), under w.mu.  The records it keeps (ENQUEUE  *)
(* records of the jobs the caller names) are any subset here.             *)

\* The segments Compact reads and then removes: all but the active one.
OldSegs == SubSeq(segs, 1, Len(segs) - 1)

\* Up to tempSegment.Close(): with more than one segment, the kept records
\* of every segment but the active one are written to a new segment with
\* id nextSegmentID.  (A read error other than ErrCorruptedData returns
\* early; frames cut short only occur in an active segment, see Write.)
CompactBegin ==
    /\ status = "up" /\ ~compacting
    /\ Len(segs) > 1 /\ compactions < MaxCompactions
    /\ LET old == FlattenSeq([i \in DOMAIN OldSegs |->
                                 ReadSegment(files[OldSegs[i]]).recs])
       IN  \E keep \in SUBSET ToSet(old) :
               LET kept == SelectSeq(old, LAMBDA r : r \in keep)
               IN  /\ files' = (nextId :> [k \in 1..Len(kept) |-> Whole(kept[k])])
                                @@ files
                   /\ dropped' = dropped \cup (ToSet(old) \ keep)
    /\ compacting' = TRUE
    /\ compactions' = compactions + 1
    /\ UNCHANGED <<segs, nextId, size, broken, status, written, acked, refused,
                   crashes, faults>>

\* Mutant: the removal loop runs over every segment, the active one too.
RemovedSegsWithActive == ToSet(segs)

\* The segments the removal loop of Compact closes and deletes.
RemovedSegs == ToSet(OldSegs)

\* The rest of Compact: remove the old segments; keep the active one; if
\* the compacted segment has data, reopen it (same id) and put it first in
\* the list and advance nextSegmentID, else remove it.
CompactEnd ==
    /\ status = "up" /\ compacting
    /\ LET old      == RemovedSegs
           temp     == nextId
           nonEmpty == files[temp] # <<>>
           gone     == old \cup (IF nonEmpty THEN {} ELSE {temp})
       IN  /\ files' = [i \in DOMAIN files \ gone |-> files[i]]
           /\ segs' = IF nonEmpty THEN <<temp, Active>> ELSE <<Active>>
           /\ nextId' = IF nonEmpty THEN nextId + 1 ELSE nextId
           /\ size' = IF nonEmpty
                      THEN (temp :> Len(files[temp])) @@ (Active :> size[Active])
                      ELSE (Active :> size[Active])
           /\ broken' = broken \ old
    /\ compacting' = FALSE
    /\ UNCHANGED <<status, written, acked, refused, dropped, crashes, faults,
                   compactions>>

-----------------------------------------------------------------------------
Next == Start \/ Write \/ Crash \/ CompactBegin \/ CompactEnd

Spec == Init /\ [][Next]_vars

TypeOK ==
    /\ DOMAIN files \subseteq Nat
    /\ \A i \in DOMAIN files : files[i] \in Seq(Frame)
    /\ segs \in Seq(DOMAIN files)
    /\ status \in {"down", "up", "failed"}
    /\ acked \in Seq(Recs) /\ dropped \subseteq Recs
    /\ broken \subseteq DOMAIN files

\* Spec 4.3: a record whose append returned success is replayed by every
\* later restart, unless a compaction dropped it.  Write, rotation, crash,
\* New's choice of the active segment and Compact all bear on it.
AckedDurable ==
    \A k \in 1..Len(acked) : acked[k] \in dropped \/ acked[k] \in ToSet(View)

\* Spec 4.2: a torn tail costs at most the records after it in that
\* segment; the replay run by Manager.Start does not fail.
StartupSucceeds == status # "failed"

\* A failed append is a failure of that append only: no Write is refused
\* because of the error an earlier Write left in the segment's writer.
WriteErrorsTransient == refused = 0

\* The log as a restart would replay it implements WalLog: it only grows
\* by appends at its end, and a compaction only drops records.
Abstract == INSTANCE WalLog WITH log <- View
Refinement == Abstract!Spec
==============================================================================
