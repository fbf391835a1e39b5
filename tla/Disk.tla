-------------------------------- MODULE Disk --------------------------------
(***************************************************************************)
(* The timing of the disk (machine/disk.cc).  A request says how long it   *)
(* will take, from the distance of the tracks, the rotation of the disk    *)
(* and the track buffer, which has what passed under the head since it     *)
(* came to the track.  One request is sent at a time (module SynchDisk).   *)
(* The clock goes on by single ticks, up to MaxTicks.                      *)
(***************************************************************************)
EXTENDS Integers

CONSTANTS SectorsPerTrack, NumTracks,
          RotationTime, \* ticks in which one sector passes under the head
          SeekTime,     \* ticks from a track to the next
          MaxTicks      \* bound on the clock

ASSUME DiskAssumption ==
    /\ SectorsPerTrack \in Nat \ {0} /\ NumTracks \in Nat \ {0}
    /\ RotationTime \in Nat \ {0} /\ SeekTime \in Nat \ {0}

DiskSector == 0 .. SectorsPerTrack * NumTracks - 1

VARIABLES clock,      \* stats->totalTicks
          active,     \* is a request being served?
          lastSector, \* of the previous request
          bufferInit, \* when the track buffer started being loaded
          order,      \* the request: its sector, and when it is sent and done
          arrived     \* history: when the head came to the track

diskVars == <<clock, active, lastSector, bufferInit, order, arrived>>

DiskInit ==
    /\ clock = 0
    /\ active = FALSE
    /\ lastSector = 0
    /\ bufferInit = 0
    /\ order = [sector |-> 0, writing |-> FALSE, sent |-> 0, seek |-> 0, due |-> 0]
    /\ arrived = 0

-----------------------------------------------------------------------------
Track(s) == s \div SectorsPerTrack

\* Disk::TimeToSeek: the seek, and the wait for the next sector boundary.
Seek(s) ==
    SeekTime * (IF Track(s) > Track(lastSector) THEN Track(s) - Track(lastSector)
                                                ELSE Track(lastSector) - Track(s))
Rotation(s) ==
    LET over == (clock + Seek(s)) % RotationTime
    IN  IF over > 0 THEN RotationTime - over ELSE 0
TimeAfter(s) == clock + Seek(s) + Rotation(s)

\* Sectors that pass before sector s when the head is at the sector from.
ModuloDiff(s, from) ==
    ((s % SectorsPerTrack) - (from % SectorsPerTrack) + SectorsPerTrack) % SectorsPerTrack

\* A faulty test of the track buffer that counts the sector under the head.
InBufferTooSoon(s, writing) ==
    /\ ~writing
    /\ Seek(s) = 0
    /\ (TimeAfter(s) - bufferInit) \div RotationTime >= ModuloDiff(s, bufferInit \div RotationTime)

\* Is the sector in the track buffer?
InBuffer(s, writing) ==
    /\ ~writing
    /\ Seek(s) = 0
    /\ (TimeAfter(s) - bufferInit) \div RotationTime > ModuloDiff(s, bufferInit \div RotationTime)

ComputeLatency(s, writing) ==
    IF InBuffer(s, writing) THEN RotationTime
    ELSE TimeAfter(s) - clock
           + ModuloDiff(s, TimeAfter(s) \div RotationTime) * RotationTime + RotationTime

\* A seek empties the track buffer.
UpdateLast(s) ==
    /\ bufferInit' = IF Seek(s) # 0 THEN TimeAfter(s) ELSE bufferInit
    /\ lastSector' = s

\* Disk::ReadRequest and WriteRequest.
Request(s, writing) ==
    /\ ~active
    /\ active' = TRUE
    /\ order' = [sector |-> s, writing |-> writing, sent |-> clock, seek |-> Seek(s),
                 due |-> clock + ComputeLatency(s, writing)]
    /\ order'.due <= MaxTicks
    /\ UpdateLast(s)
    /\ arrived' = IF Seek(s) # 0 THEN clock + Seek(s) ELSE arrived
    /\ UNCHANGED clock

\* The clock, which does not pass an interrupt that is due.
DiskTick ==
    /\ clock < IF active THEN order.due ELSE MaxTicks
    /\ clock' = clock + 1
    /\ UNCHANGED <<active, lastSector, bufferInit, order, arrived>>

\* Disk::HandleInterrupt.
RequestDone ==
    /\ active
    /\ clock = order.due
    /\ active' = FALSE
    /\ UNCHANGED <<clock, lastSector, bufferInit, order, arrived>>

DiskNext ==
    \/ \E s \in DiskSector, writing \in BOOLEAN : Request(s, writing)
    \/ DiskTick \/ RequestDone

\* The disk by itself; module Programs runs it.
DiskSpec == DiskInit /\ [][DiskNext]_diskVars

-----------------------------------------------------------------------------
\* Sector s passes under the head, all of it, between two times.
Passes(s, from, to) ==
    \E k \in from .. to - RotationTime :
        k % RotationTime = 0 /\ (k \div RotationTime) % SectorsPerTrack = s % SectorsPerTrack

\* The latency is what a turning disk takes.  A write, and a read of what the
\* buffer does not have, is done at the first moment at which the sector has
\* passed under the head after the seek; a read that is done earlier is of a
\* sector that has passed since the head came to the track, and takes the time
\* of its transfer.
LatencyExact ==
    active =>
        LET start == order.sent + order.seek
            turned == /\ Passes(order.sector, start, order.due)
                      /\ ~Passes(order.sector, start, order.due - 1)
            buffered == /\ ~order.writing /\ order.seek = 0
                        /\ Passes(order.sector, arrived, order.due)
                        /\ order.due = order.sent + RotationTime
        IN  turned \/ buffered

=============================================================================
