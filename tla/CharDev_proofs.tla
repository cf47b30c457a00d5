--------------------------- MODULE CharDev_proofs ----------------------------
(***************************************************************************)
(* The character device, for any number of processes and any sizes: every  *)
(* position stays in the buffer and the message terminated, the spinlock   *)
(* is held where it should be, the flag counts the open files, and the     *)
(* process that has the device to itself sees MessageDevice.               *)
(***************************************************************************)
EXTENDS CharDev, FiniteSetTheorems, SequenceTheorems, TLAPS

Locations ==
    {"idle", "open", "open_test", "open_inc", "release", "release_dec", "read",
     "write", "return"}

LoadOK ==
    /\ module = "loading" => copied = 0
    /\ module = "registered" => copied <= InitialLen

(* What a handler relies on. *)
FramesOK ==
    \A p \in Processes :
        /\ pc[p] # "idle" => frame[p].file \in Files
        /\ pc[p] = "write" => frame[p].end < BufLen
        /\ pc[p] = "return" => frame[p].at < BufLen

TypeInv == TypeOK /\ LoadOK /\ FramesOK

(* p has a new frame, and goes to l. *)
Moves(p, l, g) ==
    pc' = [pc EXCEPT ![p] = l] /\ frame' = [frame EXCEPT ![p] = g]

-----------------------------------------------------------------------------
LEMMA Sizes ==
    /\ InitialLen \in Nat /\ BufLen \in Nat /\ InitialLen < BufLen /\ BufLen - 1 \in Nat
    /\ MaxOpens \in Nat /\ MaxCalls \in Nat
    /\ Nul \in Characters /\ Initial \in Characters
    /\ \A n \in 0..MaxCalls : n \in Characters
BY DeviceAssumption DEF Characters, Nul, Initial

LEMMA NoFrameType == NoFrame \in Frames
<1>1. <<>> \in Seq(Characters)
  OBVIOUS
<1>2. QED
  BY <1>1, Sizes DEF NoFrame, Frames

(* Frames that differ in some fields. *)
LEMMA AtChanged ==
    ASSUME NEW h \in Frames, NEW a \in 0..BufLen
    PROVE  /\ [h EXCEPT !.at = a] \in Frames
           /\ [h EXCEPT !.at = a].at = a /\ [h EXCEPT !.at = a].file = h.file
           /\ [h EXCEPT !.at = a].end = h.end
BY DEF Frames

LEMMA GotChanged ==
    ASSUME NEW h \in Frames, NEW a \in 0..BufLen, NEW s \in Seq(Characters)
    PROVE  /\ [h EXCEPT !.at = a, !.got = s] \in Frames
           /\ [h EXCEPT !.at = a, !.got = s].file = h.file
BY DEF Frames

LEMMA InitTypeInv ==
    Init => TypeInv
<1> SUFFICES ASSUME Init PROVE TypeInv
  OBVIOUS
<1> USE Sizes DEF Init
<1>1. alone \in BOOLEAN
  BY Zenon
<1>2. frame \in [Processes -> Frames]
  BY NoFrameType
<1>3. Message \in [0..BufLen - 1 -> Characters] /\ Message[BufLen - 1] = Nul
  OBVIOUS
<1>4. fds \in [Processes -> SUBSET Files]
  OBVIOUS
<1>5. offset \in [Files -> 0..BufLen - 1]
  OBVIOUS
<1>6. TypeOK
  BY <1>1, <1>2, <1>3, <1>4, <1>5 DEF TypeOK
<1>7. LoadOK /\ FramesOK
  BY DEF LoadOK, FramesOK
<1>8. QED
  BY <1>6, <1>7 DEF TypeInv

(* One process moves; what it does to the memory is the caller's business. *)
LEMMA MoveKeeps ==
    ASSUME TypeInv, NEW p \in Processes, NEW l \in Locations, NEW g \in Frames,
           Moves(p, l, g), UNCHANGED loading,
           l # "idle" => g.file \in Files, l = "write" => g.end < BufLen,
           l = "return" => g.at < BufLen
    PROVE  /\ pc' \in [Processes -> Locations] /\ frame' \in [Processes -> Frames]
           /\ LoadOK' /\ FramesOK'
<1>1. pc' \in [Processes -> Locations] /\ frame' \in [Processes -> Frames]
  BY DEF TypeInv, TypeOK, Moves, Locations
<1>2. \A q \in Processes : IF q = p THEN pc'[q] = l /\ frame'[q] = g
                                    ELSE pc'[q] = pc[q] /\ frame'[q] = frame[q]
  BY DEF TypeInv, TypeOK, Moves
<1>3. FramesOK'
  BY <1>2 DEF TypeInv, FramesOK, Files
<1>4. LoadOK'
  BY DEF TypeInv, LoadOK, loading
<1>5. QED
  BY <1>1, <1>3, <1>4

LEMMA LoadKeepsTypes == ASSUME TypeInv, Register \/ CopyInitial \/ Unload PROVE TypeInv'
<1> USE Sizes DEF TypeInv
<1>1. CASE Register
  <2>1. TypeOK'
    BY <1>1 DEF Register, TypeOK, memory, opening
  <2>2. LoadOK' /\ FramesOK'
    BY <1>1 DEF Register, LoadOK, FramesOK
  <2>3. QED
    BY <2>1, <2>2
<1>2. CASE CopyInitial
  <2>1. copied \in 0..InitialLen /\ copied \in 0..BufLen - 1
    BY <1>2 DEF CopyInitial, TypeOK, LoadOK
  <2>2. /\ Message' \in [0..BufLen - 1 -> Characters] /\ Message'[BufLen - 1] = Nul
    BY <1>2, <2>1 DEF CopyInitial, TypeOK
  <2>3. copied' \in 0..InitialLen + 1 /\ module' \in {"registered", "ready"}
    BY <1>2, <2>1 DEF CopyInitial
  <2>4. TypeOK'
    BY <1>2, <2>2, <2>3 DEF CopyInitial, TypeOK, opening
  <2>5. LoadOK' /\ FramesOK'
    BY <1>2, <2>1 DEF CopyInitial, LoadOK, FramesOK
  <2>6. QED
    BY <2>4, <2>5
<1>3. CASE Unload
  <2>1. alone' \in BOOLEAN
    BY <1>3, Zenon DEF Unload
  <2>2. frame' \in [Processes -> Frames]
    BY <1>3, NoFrameType DEF Unload
  <2>3. /\ Message' \in [0..BufLen - 1 -> Characters] /\ Message'[BufLen - 1] = Nul
        /\ fds' \in [Processes -> SUBSET Files]
        /\ offset' \in [Files -> 0..BufLen - 1]
    BY <1>3 DEF Unload
  <2>4. TypeOK'
    BY <1>3, <2>1, <2>2, <2>3 DEF Unload, TypeOK
  <2>5. LoadOK' /\ FramesOK'
    BY <1>3 DEF Unload, LoadOK, FramesOK
  <2>6. QED
    BY <2>4, <2>5
<1>4. QED
  BY <1>1, <1>2, <1>3

(* open(), close(), and what the two handlers do with the flag. *)
LEMMA OpeningKeepsTypes ==
    ASSUME TypeInv, NEW p \in Processes,
           Open(p) \/ SpinLock(p) \/ OpenBusy(p) \/ OpenFree(p) \/ OpenTaken(p) \/ Release(p)
    PROVE  TypeInv'
<1> USE Sizes DEF TypeInv
<1>1. UNCHANGED <<loading, memory, calls, offset>>
  BY DEF Open, SpinLock, OpenBusy, OpenFree, OpenTaken, Release
<1>2. frame[p] \in Frames /\ NoFrame.file = 0
  BY DEF TypeOK, NoFrame
<1>3. CASE Open(p)
  <2>1. opens + 1 \in Files
    BY <1>3 DEF Open, TypeOK, Files
  <2>2. PICK g \in Frames : g.file = opens + 1 /\ Moves(p, "open", g)
    <3>1. [frame[p] EXCEPT !.file = opens + 1] \in Frames
      BY <1>2, <2>1 DEF Frames
    <3>2. [frame[p] EXCEPT !.file = opens + 1].file = opens + 1
      BY <1>2 DEF Frames
    <3>3. Moves(p, "open", [frame[p] EXCEPT !.file = opens + 1])
      BY <1>3 DEF Open, Goes, Moves, TypeOK
    <3>4. QED
      BY <3>1, <3>2, <3>3
  <2>3. /\ pc' \in [Processes -> Locations] /\ frame' \in [Processes -> Frames]
        /\ LoadOK' /\ FramesOK'
    BY <1>1, <2>1, <2>2, MoveKeeps DEF Locations
  <2>4. TypeOK'
    BY <1>1, <1>3, <2>1, <2>3 DEF Open, TypeOK, Locations, loading, memory, Files
  <2>5. QED
    BY <2>3, <2>4
<1>4. CASE SpinLock(p) \/ OpenFree(p)
  <2>1. PICK l \in {"open_test", "open_inc", "release_dec"} : pc[p] # "idle" /\ Moves(p, l, frame[p])
    BY <1>4 DEF SpinLock, OpenFree, Goes, Moves, TypeOK
  <2>2. /\ pc' \in [Processes -> Locations] /\ frame' \in [Processes -> Frames]
        /\ LoadOK' /\ FramesOK'
    BY <1>1, <1>2, <2>1, MoveKeeps DEF Locations, FramesOK
  <2>3. TypeOK'
    BY <1>1, <1>4, <2>2 DEF SpinLock, OpenFree, TypeOK, Locations, loading, memory, opening
  <2>4. QED
    BY <2>2, <2>3
<1>5. CASE OpenBusy(p) \/ OpenTaken(p) \/ Release(p)
  <2>1. Moves(p, "idle", NoFrame) /\ pc[p] # "idle"
    BY <1>5 DEF OpenBusy, OpenTaken, Release, Ends, Goes, Moves
  <2>2. /\ pc' \in [Processes -> Locations] /\ frame' \in [Processes -> Frames]
        /\ LoadOK' /\ FramesOK'
    BY <1>1, <2>1, NoFrameType, MoveKeeps DEF Locations
  <2>3. fds' \in [Processes -> SUBSET Files]
    BY <1>5, <2>1 DEF OpenBusy, OpenTaken, Release, TypeOK, FramesOK
  <2>4. alone' \in BOOLEAN
    BY <1>5, Zenon DEF OpenBusy, OpenTaken, Release, TypeOK
  <2>5. dev_open_flag' \in Int /\ opens' = opens /\ lock' = NoProcess
    BY <1>5 DEF OpenBusy, OpenTaken, Release, TypeOK
  <2>6. TypeOK'
    BY <1>1, <2>2, <2>3, <2>4, <2>5 DEF TypeOK, Locations, loading, memory
  <2>7. QED
    BY <2>2, <2>6
<1>6. QED
  BY <1>3, <1>4, <1>5

LEMMA SharingKeepsTypes ==
    ASSUME TypeInv, NEW p \in Processes,
           (\E q \in Processes : Fork(p, q)) \/ (\E f \in fds[p] : Close(p, f))
    PROVE  TypeInv'
<1> USE Sizes DEF TypeInv
<1>1. UNCHANGED <<loading, memory, dev_open_flag, lock, opens, calls, offset>>
  BY DEF Fork, Close
<1>2. CASE \E q \in Processes : Fork(p, q)
  <2>1. PICK q \in Processes : Fork(p, q)
    BY <1>2
  <2>2. UNCHANGED <<pc, frame>> /\ alone' = FALSE /\ fds' = [fds EXCEPT ![q] = fds[p]]
    BY <2>1 DEF Fork
  <2>3. alone' \in BOOLEAN
    BY <2>2, Zenon
  <2>4. TypeOK'
    BY <1>1, <2>2, <2>3 DEF TypeOK, loading, memory
  <2>5. LoadOK' /\ FramesOK'
    BY <1>1, <2>2 DEF LoadOK, FramesOK, loading
  <2>6. QED
    BY <2>4, <2>5
<1>3. CASE \E f \in fds[p] : Close(p, f)
  <2>1. PICK f \in fds[p] : Close(p, f)
    BY <1>3
  <2>2. f \in Files
    BY DEF TypeOK
  <2>3. fds' \in [Processes -> SUBSET Files]
    BY <2>1 DEF Close, TypeOK
  <2>4. CASE UNCHANGED <<pc, frame, alone>>
    <3>1. TypeOK'
      BY <1>1, <2>3, <2>4 DEF TypeOK, loading, memory
    <3>2. LoadOK' /\ FramesOK'
      BY <1>1, <2>4 DEF LoadOK, FramesOK, loading
    <3>3. QED
      BY <3>1, <3>2
  <2>5. CASE Goes(p, "idle", "release") /\ frame' = [frame EXCEPT ![p].file = f] /\ alone' = FALSE
    <3>1. PICK g \in Frames : g.file = f /\ Moves(p, "release", g)
      <4>1. frame[p] \in Frames
        BY DEF TypeOK
      <4>2. [frame[p] EXCEPT !.file = f] \in Frames /\ [frame[p] EXCEPT !.file = f].file = f
        BY <2>2, <4>1 DEF Frames
      <4>3. Moves(p, "release", [frame[p] EXCEPT !.file = f])
        BY <2>5 DEF Goes, Moves, TypeOK
      <4>4. QED
        BY <4>2, <4>3
    <3>2. /\ pc' \in [Processes -> Locations] /\ frame' \in [Processes -> Frames]
          /\ LoadOK' /\ FramesOK'
      BY <1>1, <2>2, <3>1, MoveKeeps DEF Locations
    <3>3. alone' \in BOOLEAN
      BY <2>5, Zenon
    <3>4. TypeOK'
      BY <1>1, <2>3, <3>2, <3>3 DEF TypeOK, Locations, loading, memory
    <3>5. QED
      BY <3>2, <3>4
  <2>6. QED
    BY <2>1, <2>4, <2>5 DEF Close
<1>4. QED
  BY <1>2, <1>3

(* A call of read() or write() starts. *)
BeginsWell(p) ==
    \E l \in {"return", "read", "write"}, g \in Frames :
        /\ Moves(p, l, g) /\ g.file \in Files
        /\ l = "write" => g.end < BufLen
        /\ l = "return" => g.at < BufLen

LEMMA BeginKeepsTypes ==
    ASSUME TypeInv, NEW p \in Processes, NEW f \in fds[p],
           \/ Refuse(p, f)
           \/ \E n \in WriteLengths : Write(p, f, n)
           \/ \E n \in ReadLengths, room \in Rooms : Read(p, f, n, room)
    PROVE  TypeInv'
<1> USE Sizes, DeviceAssumption DEF TypeInv
<1>1. f \in Files /\ offset[f] \in 0..BufLen - 1 /\ offset[f] \in 0..BufLen
  BY DEF TypeOK
<1>2. <<>> \in Seq(Characters)
  OBVIOUS
<1>3. calls < MaxCalls /\ calls' = calls + 1 /\ UNCHANGED <<loading, opening, memory, offset>>
  BY DEF Refuse, Write, Read, BeginCall
<1>4. BeginsWell(p)
  <2>1. CASE Refuse(p, f)
    <3> DEFINE g == [NoFrame EXCEPT !.file = f, !.at = offset[f]]
    <3>1. g \in Frames /\ g.file = f /\ g.at = offset[f]
      <4>1. PICK h \in Frames : h = NoFrame
        BY NoFrameType
      <4>2. PICK a \in 0..BufLen : a = offset[f]
        BY <1>1
      <4>3. g = [h EXCEPT !.file = f, !.at = a]
        BY <4>1, <4>2
      <4>4. QED
        BY <1>1, <4>1, <4>2, <4>3 DEF Frames
    <3>2. Moves(p, "return", g)
      BY <2>1 DEF Refuse, BeginCall, Goes, Moves
    <3> HIDE DEF g
    <3>3. QED
      BY <1>1, <3>1, <3>2 DEF BeginsWell
  <2>2. ASSUME NEW n \in WriteLengths, Write(p, f, n) PROVE BeginsWell(p)
    <3> DEFINE g == [NoFrame EXCEPT !.op = "write", !.file = f, !.text = calls + 1,
                                    !.end = Smaller(n, BufLen - 1)]
    <3>1. Smaller(n, BufLen - 1) \in 0..BufLen /\ Smaller(n, BufLen - 1) < BufLen
      BY DEF Smaller
    <3>2. calls + 1 \in 0..MaxCalls
      BY <1>3 DEF TypeOK
    <3>3. g \in Frames /\ g.file = f /\ g.end < BufLen
      <4>1. PICK h \in Frames : h = NoFrame
        BY NoFrameType
      <4>2. PICK t \in 0..MaxCalls, e \in 0..BufLen :
                t = calls + 1 /\ e = Smaller(n, BufLen - 1)
        BY <3>1, <3>2
      <4>3. g = [h EXCEPT !.op = "write", !.file = f, !.text = t, !.end = e]
        BY <4>1, <4>2
      <4>4. g \in Frames /\ g.file = f /\ g.end = e
        BY <1>1, <4>1, <4>2, <4>3 DEF Frames
      <4>5. QED
        BY <3>1, <4>2, <4>4
    <3>4. Moves(p, "write", g)
      BY <2>2 DEF Write, BeginCall, Goes, Moves
    <3> HIDE DEF g
    <3>5. QED
      BY <1>1, <3>3, <3>4 DEF BeginsWell
  <2>3. ASSUME NEW n \in ReadLengths, NEW room \in Rooms, Read(p, f, n, room) PROVE BeginsWell(p)
    <3> DEFINE g == [NoFrame EXCEPT !.op = "read", !.file = f, !.at = offset[f], !.room = room,
                                    !.end = EndRead(offset[f], n)]
    <3>1. EndRead(offset[f], n) \in 0..BufLen /\ room \in Nat
      <4>1. n \in Nat /\ room \in Nat
        BY ONLY DeviceAssumption
      <4>2. QED
        BY ONLY <1>1, <4>1, Sizes, DeviceAssumption DEF EndRead, Smaller
    <3>2. g \in Frames /\ g.file = f
      <4>1. PICK h \in Frames : h = NoFrame
        BY NoFrameType
      <4>2. PICK a \in 0..BufLen, e \in 0..BufLen :
                a = offset[f] /\ e = EndRead(offset[f], n)
        BY <1>1, <3>1
      <4>3. g = [h EXCEPT !.op = "read", !.file = f, !.at = a, !.room = room, !.end = e]
        BY <4>1, <4>2
      <4>4. QED
        BY <1>1, <3>1, <4>1, <4>2, <4>3 DEF Frames
    <3>3. Moves(p, "read", g)
      BY <2>3 DEF Read, BeginCall, Goes, Moves
    <3> HIDE DEF g
    <3>4. QED
      BY <1>1, <3>2, <3>3 DEF BeginsWell
  <2>4. QED
    BY <2>1, <2>2, <2>3
<1>5. /\ pc' \in [Processes -> Locations] /\ frame' \in [Processes -> Frames]
      /\ LoadOK' /\ FramesOK'
  BY <1>3, <1>4, MoveKeeps DEF BeginsWell, Locations
<1>6. TypeOK'
  BY <1>3, <1>5 DEF TypeOK, Locations, loading, memory, opening
<1>7. QED
  BY <1>5, <1>6

(* The loops of device_read and device_write, up to the return. *)
LEMMA LoopKeepsTypes ==
    ASSUME TypeInv, NEW p \in Processes,
           ReadChar(p) \/ ReadFaults(p) \/ ReadEnds(p) \/ WriteChar(p) \/ WriteEnds(p) \/ Return(p)
    PROVE  TypeInv'
<1> USE Sizes DEF TypeInv
<1>1. UNCHANGED <<loading, opening, calls>>
  BY DEF ReadChar, ReadFaults, ReadEnds, WriteChar, WriteEnds, Return
<1>2. /\ frame[p] \in Frames /\ frame[p].at \in 0..BufLen /\ frame[p].end \in 0..BufLen
      /\ frame[p].text \in 0..MaxCalls /\ frame[p].got \in Seq(Characters)
  BY DEF TypeOK, Frames
<1>3. pc[p] # "idle" /\ frame[p].file \in Files
  BY DEF ReadChar, ReadFaults, ReadEnds, WriteChar, WriteEnds, Return, Goes, Ends, FramesOK
<1>4. CASE ReadChar(p)
  <2>1. pc[p] = "read" /\ frame[p].at \in 0..BufLen - 1
    BY <1>2, <1>4 DEF ReadChar, Reading
  <2>2. Append(frame[p].got, Message[frame[p].at]) \in Seq(Characters)
    BY <1>2, <2>1, AppendProperties DEF TypeOK
  <2> DEFINE g == [frame[p] EXCEPT !.at = frame[p].at + 1,
                                   !.got = Append(frame[p].got, Message[frame[p].at])]
  <2>3. g \in Frames /\ g.file \in Files
    <3>1. frame[p].at + 1 \in 0..BufLen
      BY <2>1
    <3>2. QED
      BY <1>2, <1>3, <2>2, <3>1, GotChanged, Zenon
  <2>4. Moves(p, "read", g)
    BY <1>4, <2>1 DEF ReadChar, Moves, TypeOK
  <2> HIDE DEF g
  <2>5. /\ pc' \in [Processes -> Locations] /\ frame' \in [Processes -> Frames]
        /\ LoadOK' /\ FramesOK'
    BY <1>1, <2>3, <2>4, MoveKeeps DEF Locations
  <2>6. TypeOK'
    BY <1>1, <1>4, <2>5 DEF ReadChar, TypeOK, Locations, loading, memory, opening
  <2>7. QED
    BY <2>5, <2>6
<1>5. CASE ReadFaults(p)
  <2>1. Moves(p, "return", frame[p]) /\ frame[p].at < BufLen
    BY <1>2, <1>5 DEF ReadFaults, Reading, Goes, Moves, TypeOK
  <2>2. /\ pc' \in [Processes -> Locations] /\ frame' \in [Processes -> Frames]
        /\ LoadOK' /\ FramesOK'
    BY <1>1, <1>2, <1>3, <2>1, MoveKeeps DEF Locations
  <2>3. TypeOK'
    BY <1>1, <1>5, <2>2 DEF ReadFaults, TypeOK, Locations, loading, memory, opening
  <2>4. QED
    BY <2>2, <2>3
<1>6. CASE ReadEnds(p)
  <2> DEFINE a == IF frame[p].at = BufLen THEN 0 ELSE frame[p].at
             g == [frame[p] EXCEPT !.at = a]
  <2>0. a \in 0..BufLen /\ a < BufLen
    BY <1>2
  <2>1. g \in Frames /\ g.file \in Files /\ g.at < BufLen
    <3> HIDE DEF a
    <3>1. QED
      BY <1>2, <1>3, <2>0, AtChanged, Zenon
  <2>2. Moves(p, "return", g)
    BY <1>6 DEF ReadEnds, Goes, Moves, TypeOK
  <2> HIDE DEF g
  <2>3. /\ pc' \in [Processes -> Locations] /\ frame' \in [Processes -> Frames]
        /\ LoadOK' /\ FramesOK'
    BY <1>1, <2>1, <2>2, MoveKeeps DEF Locations
  <2>4. TypeOK'
    BY <1>1, <1>6, <2>3 DEF ReadEnds, TypeOK, Locations, loading, memory, opening
  <2>5. QED
    BY <2>3, <2>4
<1>7. CASE WriteChar(p)
  <2>1. /\ pc[p] = "write" /\ frame[p].at <= frame[p].end /\ frame[p].end < BufLen
    BY <1>7 DEF WriteChar, FramesOK
  <2>2. Message' \in [0..BufLen - 1 -> Characters] /\ Message'[BufLen - 1] = Nul
    <3>1. PICK c \in Characters :
              /\ Message' = [Message EXCEPT ![frame[p].at] = c]
              /\ ~(frame[p].at < frame[p].end) => c = Nul
      BY <1>2, <1>7 DEF WriteChar
    <3>2. frame[p].at \in 0..BufLen - 1
      BY <1>2, <2>1
    <3>3. frame[p].at = BufLen - 1 => c = Nul
      BY <1>2, <2>1, <3>1
    <3>4. QED
      BY <3>1, <3>2, <3>3 DEF TypeOK
  <2> DEFINE g == [frame[p] EXCEPT !.at = frame[p].at + 1]
  <2>3. g \in Frames /\ g.file \in Files /\ g.end < BufLen
    <3>1. frame[p].at + 1 \in 0..BufLen
      BY <1>2, <2>1
    <3>2. QED
      BY <1>2, <1>3, <2>1, <3>1, AtChanged, Zenon
  <2>4. Moves(p, "write", g)
    BY <1>7, <2>1 DEF WriteChar, Moves, TypeOK
  <2> HIDE DEF g
  <2>5. /\ pc' \in [Processes -> Locations] /\ frame' \in [Processes -> Frames]
        /\ LoadOK' /\ FramesOK'
    BY <1>1, <2>3, <2>4, MoveKeeps DEF Locations
  <2>6. TypeOK'
    BY <1>1, <1>7, <2>2, <2>5 DEF WriteChar, TypeOK, Locations, loading, opening
  <2>7. QED
    BY <2>5, <2>6
<1>8. CASE WriteEnds(p)
  <2> DEFINE g == [frame[p] EXCEPT !.at = 0]
  <2>1. g \in Frames /\ g.file \in Files /\ g.at < BufLen
    <3>1. 0 \in 0..BufLen /\ 0 < BufLen
      OBVIOUS
    <3>2. QED
      BY <1>2, <1>3, <3>1, AtChanged, Zenon
  <2>2. Moves(p, "return", g)
    BY <1>8 DEF WriteEnds, Goes, Moves, TypeOK
  <2> HIDE DEF g
  <2>3. /\ pc' \in [Processes -> Locations] /\ frame' \in [Processes -> Frames]
        /\ LoadOK' /\ FramesOK'
    BY <1>1, <2>1, <2>2, MoveKeeps DEF Locations
  <2>4. TypeOK'
    BY <1>1, <1>2, <1>8, <2>3 DEF WriteEnds, TypeOK, Locations, loading, opening
  <2>5. QED
    BY <2>3, <2>4
<1>9. CASE Return(p)
  <2>1. Moves(p, "idle", NoFrame) /\ frame[p].at \in 0..BufLen - 1
    BY <1>2, <1>9 DEF Return, Ends, Goes, Moves, FramesOK
  <2>2. offset' \in [Files -> 0..BufLen - 1]
    BY <1>9, <2>1 DEF Return, TypeOK
  <2>3. /\ pc' \in [Processes -> Locations] /\ frame' \in [Processes -> Frames]
        /\ LoadOK' /\ FramesOK'
    BY <1>1, <2>1, NoFrameType, MoveKeeps DEF Locations
  <2>4. TypeOK'
    BY <1>1, <1>9, <2>2, <2>3 DEF Return, TypeOK, Locations, loading, memory, opening
  <2>5. QED
    BY <2>3, <2>4
<1>10. QED
  BY <1>4, <1>5, <1>6, <1>7, <1>8, <1>9

LEMMA NextKeepsTypes == TypeInv /\ [Next]_vars => TypeInv'
<1> SUFFICES ASSUME TypeInv, [Next]_vars PROVE TypeInv'
  OBVIOUS
<1>1. CASE Register \/ CopyInitial \/ Unload
  BY <1>1, LoadKeepsTypes
<1>2. ASSUME NEW p \in Processes, Step(p) PROVE TypeInv'
  BY <1>2, OpeningKeepsTypes, LoopKeepsTypes DEF Step
<1>3. ASSUME NEW p \in Processes, Call(p) PROVE TypeInv'
  BY <1>3, OpeningKeepsTypes, SharingKeepsTypes, BeginKeepsTypes DEF Call
<1>4. CASE UNCHANGED vars
  BY <1>4 DEF TypeInv, TypeOK, LoadOK, FramesOK, vars, loading, memory, opening
<1>5. QED
  BY <1>1, <1>2, <1>3, <1>4 DEF Next

LEMMA TypeInvariance == Spec => []TypeInv
<1>1. QED
  BY InitTypeInv, NextKeepsTypes, PTL DEF Spec

(* The buffer is never left: each position and each write lies in it, and  *)
(* the message keeps its NUL, whatever processes share the file and        *)
(* however their calls interleave.                                         *)
THEOREM TypeCorrect == Spec => []TypeOK
<1>1. TypeInv => TypeOK
  BY DEF TypeInv
<1>2. QED
  BY <1>1, TypeInvariance, PTL

-----------------------------------------------------------------------------
(* The spinlock *)

Held == {"open_test", "open_inc", "release_dec"}

(* p goes to l without taking or giving the lock, or takes it, or gives it *)
(* back.                                                                   *)
LEMMA LockMove ==
    ASSUME TypeInv, SpinLockHeld, NEW p \in Processes, NEW l,
           pc' = [pc EXCEPT ![p] = l],
           \/ lock' = lock /\ (l \in Held <=> pc[p] \in Held)
           \/ lock = NoProcess /\ lock' = p /\ l \in Held
           \/ lock' = NoProcess /\ pc[p] \in Held /\ l \notin Held
    PROVE  SpinLockHeld'
BY DeviceAssumption DEF TypeInv, TypeOK, SpinLockHeld, Held

LEMMA NextKeepsLock == TypeInv /\ SpinLockHeld /\ [Next]_vars => SpinLockHeld'
<1> SUFFICES ASSUME TypeInv, SpinLockHeld, [Next]_vars PROVE SpinLockHeld'
  OBVIOUS
<1>1. CASE Register \/ CopyInitial \/ UNCHANGED vars
  BY <1>1 DEF Register, CopyInitial, vars, opening, SpinLockHeld
<1>2. CASE Unload
  BY <1>2, DeviceAssumption DEF Unload, SpinLockHeld
<1>3. ASSUME NEW p \in Processes, Step(p) PROVE SpinLockHeld'
  <2>1. CASE SpinLock(p)
    <3>1. PICK l \in Held : pc' = [pc EXCEPT ![p] = l]
      BY <2>1 DEF SpinLock, Goes, Held
    <3>2. QED
      BY <2>1, <3>1, LockMove DEF SpinLock
  <2>2. CASE OpenBusy(p) \/ OpenTaken(p) \/ Release(p)
    <3>1. pc[p] \in Held /\ pc' = [pc EXCEPT ![p] = "idle"] /\ lock' = NoProcess
      BY <2>2 DEF OpenBusy, OpenTaken, Release, Ends, Goes, Held
    <3>2. QED
      BY <3>1, LockMove DEF Held
  <2>3. CASE OpenFree(p)
    <3>1. pc[p] \in Held /\ pc' = [pc EXCEPT ![p] = "open_inc"] /\ lock' = lock
      BY <2>3 DEF OpenFree, Goes, Held, opening
    <3>2. QED
      BY <3>1, LockMove DEF Held
  <2>4. CASE ReadChar(p) \/ WriteChar(p)
    BY <2>4 DEF ReadChar, WriteChar, opening, SpinLockHeld
  <2>5. CASE ReadFaults(p) \/ ReadEnds(p) \/ WriteEnds(p) \/ Return(p)
    <3>1. PICK l \in {"return", "idle"} : pc' = [pc EXCEPT ![p] = l]
      BY <2>5 DEF ReadFaults, ReadEnds, WriteEnds, Return, Ends, Goes
    <3>2. pc[p] \notin Held /\ l \notin Held /\ lock' = lock
      BY <2>5 DEF ReadFaults, ReadEnds, WriteEnds, Return, Ends, Goes, opening, Held
    <3>3. QED
      BY <3>1, <3>2, LockMove
  <2>6. QED
    BY <1>3, <2>1, <2>2, <2>3, <2>4, <2>5 DEF Step
<1>4. ASSUME NEW p \in Processes, Call(p) PROVE SpinLockHeld'
  <2>1. lock' = lock
    BY <1>4 DEF Call, Open, Fork, Close, Refuse, Write, Read, BeginCall, opening
  <2>2. CASE UNCHANGED pc
    BY <2>1, <2>2 DEF SpinLockHeld
  <2>3. CASE ~UNCHANGED pc
    <3>1. PICK l \in {"open", "release", "return", "read", "write"} :
              pc[p] = "idle" /\ pc' = [pc EXCEPT ![p] = l]
      BY <1>4, <2>3 DEF Call, Open, Fork, Close, Refuse, Write, Read, BeginCall, Goes
    <3>2. pc[p] \notin Held /\ l \notin Held
      BY <3>1 DEF Held
    <3>3. QED
      BY <2>1, <3>1, <3>2, LockMove
  <2>4. QED
    BY <2>2, <2>3
<1>5. QED
  BY <1>1, <1>2, <1>3, <1>4 DEF Next

LEMMA InitLock == Init => SpinLockHeld
BY DeviceAssumption DEF Init, SpinLockHeld

LEMMA LockInvariance == Spec => [](TypeInv /\ SpinLockHeld)
<1>1. Init => TypeInv /\ SpinLockHeld
  BY InitTypeInv, InitLock
<1>2. (TypeInv /\ SpinLockHeld) /\ [Next]_vars => (TypeInv /\ SpinLockHeld)'
  BY NextKeepsTypes, NextKeepsLock
<1>3. QED
  BY <1>1, <1>2, PTL DEF Spec

(* device_open and device_release hold the spinlock from the test of the   *)
(* flag to its change, and no path of theirs keeps it.                     *)
THEOREM LockedWhereNeeded == Spec => []SpinLockHeld
<1>1. QED
  BY LockInvariance, PTL

-----------------------------------------------------------------------------
(* The open flag *)

Opening == {"open", "open_test", "open_inc"}
Leaving == {"release", "release_dec"}

(* A file is new until its process has it, and the flag is still down      *)
(* where it is about to be raised.                                         *)
FilesOK ==
    /\ OpenFiles \subseteq 1..opens
    /\ \A p \in Processes : pc[p] \in Opening =>
           frame[p].file \in 1..opens /\ frame[p].file \notin OpenFiles
    /\ \A p, q \in Processes :
           pc[p] \in Opening /\ pc[q] \in Opening /\ p # q =>
               frame[p].file # frame[q].file
    /\ \A p \in Processes : pc[p] = "open_inc" => dev_open_flag = 0

Inv == TypeInv /\ SpinLockHeld /\ FilesOK /\ OpenCounted

LEMMA CountsFinite ==
    ASSUME TypeInv
    PROVE  /\ IsFiniteSet(OpenFiles) /\ Cardinality(OpenFiles) \in Nat
           /\ IsFiniteSet(Releasing) /\ Cardinality(Releasing) \in Nat
<1>1. OpenFiles \subseteq 1..MaxOpens
  BY DEF TypeInv, TypeOK, OpenFiles, Files
<1>2. Releasing \subseteq Processes
  BY DEF Releasing
<1>3. IsFiniteSet(1..MaxOpens) /\ IsFiniteSet(Processes)
  BY Sizes, FS_Interval, DeviceAssumption
<1>4. QED
  BY <1>1, <1>2, <1>3, FS_Subset, FS_CardinalityType

(* A process that neither opens nor closes anything. *)
LEMMA QuietMove ==
    ASSUME TypeInv, FilesOK, OpenCounted, NEW p \in Processes, NEW l \in Locations, NEW g,
           Moves(p, l, g), UNCHANGED <<dev_open_flag, opens, fds>>,
           l \in Leaving <=> pc[p] \in Leaving,
           l \in Opening => pc[p] \in Opening /\ g.file = frame[p].file,
           l = "open_inc" => dev_open_flag = 0
    PROVE  FilesOK' /\ OpenCounted'
<1>1. OpenFiles' = OpenFiles
  BY DEF OpenFiles
<1>2. \A q \in Processes : IF q = p THEN pc'[q] = l /\ frame'[q] = g
                                    ELSE pc'[q] = pc[q] /\ frame'[q] = frame[q]
  BY DEF TypeInv, TypeOK, Moves
<1>3. Releasing' = Releasing
  BY <1>2 DEF Releasing, Leaving
<1>4. OpenCounted'
  BY <1>1, <1>3 DEF OpenCounted
<1>5. \A q \in Processes : pc'[q] \in Opening =>
          pc[q] \in Opening /\ frame'[q].file = frame[q].file
  BY <1>2
<1>6. \A q \in Processes : pc'[q] = "open_inc" => dev_open_flag' = 0
  BY <1>2 DEF FilesOK
<1>7. FilesOK'
  BY <1>1, <1>5, <1>6 DEF FilesOK
<1>8. QED
  BY <1>4, <1>7

(* A new file is one that nobody has. *)
LEMMA OpenKeepsCount == ASSUME Inv, NEW p \in Processes, Open(p) PROVE FilesOK' /\ OpenCounted'
<1> USE DEF Inv
<1>1. /\ opens' = opens + 1 /\ pc[p] = "idle" /\ UNCHANGED <<dev_open_flag, fds>>
      /\ opens \in Nat
  BY Sizes DEF Open, Goes, TypeInv, TypeOK
<1>2. OpenFiles' = OpenFiles
  BY <1>1 DEF OpenFiles
<1>3. \A q \in Processes : IF q = p THEN pc'[q] = "open" /\ frame'[q].file = opens + 1
                                    ELSE pc'[q] = pc[q] /\ frame'[q] = frame[q]
  <2>1. frame[p] \in Frames
    BY DEF TypeInv, TypeOK
  <2>2. [frame[p] EXCEPT !.file = opens + 1].file = opens + 1
    BY <2>1 DEF Frames
  <2>3. frame' = [frame EXCEPT ![p] = [frame[p] EXCEPT !.file = opens + 1]]
    BY DEF Open, TypeInv, TypeOK
  <2>4. QED
    BY <2>2, <2>3 DEF Open, Goes, TypeInv, TypeOK
<1>4. Releasing' = Releasing
  BY <1>1, <1>3 DEF Releasing
<1>5. OpenCounted'
  BY <1>1, <1>2, <1>4 DEF OpenCounted
<1>6. FilesOK'
  <2>1. OpenFiles' \subseteq 1..opens'
    BY <1>1, <1>2 DEF FilesOK
  <2>2. \A q \in Processes : pc'[q] \in Opening =>
            IF q = p THEN frame'[q].file = opens + 1
            ELSE pc[q] \in Opening /\ frame'[q].file = frame[q].file
                 /\ frame[q].file \in 1..opens
    BY <1>3 DEF FilesOK
  <2>3. opens + 1 \notin OpenFiles /\ opens + 1 \in 1..opens' /\ 1..opens \subseteq 1..opens'
    BY <1>1 DEF FilesOK
  <2>4. \A q \in Processes : pc'[q] \in Opening =>
            frame'[q].file \in 1..opens' /\ frame'[q].file \notin OpenFiles'
    BY <1>2, <2>2, <2>3 DEF FilesOK
  <2>5. \A q, r \in Processes :
            pc'[q] \in Opening /\ pc'[r] \in Opening /\ q # r =>
                frame'[q].file # frame'[r].file
    BY <1>1, <2>2 DEF FilesOK
  <2>6. \A q \in Processes : pc'[q] = "open_inc" => dev_open_flag' = 0
    BY <1>1, <1>3 DEF FilesOK
  <2>7. QED
    BY <2>1, <2>4, <2>5, <2>6 DEF FilesOK
<1>7. QED
  BY <1>5, <1>6

LEMMA OpenTakenKeepsCount ==
    ASSUME Inv, NEW p \in Processes, OpenTaken(p) PROVE FilesOK' /\ OpenCounted'
<1> USE DEF Inv
<1> DEFINE f == frame[p].file
           O == OpenFiles
           P == OpenFiles'
<1>1. /\ pc[p] = "open_inc" /\ dev_open_flag = 0 /\ dev_open_flag' = 1
      /\ f \in 1..opens /\ f \notin O /\ UNCHANGED opens
      /\ fds' = [fds EXCEPT ![p] = @ \cup {f}]
  BY DEF OpenTaken, Ends, Goes, FilesOK, Opening, TypeInv, TypeOK
<1>2. P = O \cup {f}
  BY <1>1 DEF OpenFiles, TypeInv, TypeOK
<1>3. Cardinality(P) = Cardinality(O) + 1
  <2>1. IsFiniteSet(O)
    BY CountsFinite
  <2> HIDE DEF O, P, f
  <2>2. QED
    BY <1>1, <1>2, <2>1, FS_AddElement
<1>4. \A q \in Processes : IF q = p THEN pc'[q] = "idle"
                                    ELSE pc'[q] = pc[q] /\ frame'[q] = frame[q]
  BY DEF OpenTaken, Ends, Goes, TypeInv, TypeOK
<1>5. Releasing' = Releasing
  BY <1>1, <1>4 DEF Releasing
<1>6. OpenCounted'
  BY <1>1, <1>3, <1>5, CountsFinite DEF OpenCounted
(* Nobody else holds the lock, and so nobody else is about to raise it. *)
<1>7. \A q \in Processes : pc'[q] # "open_inc"
  BY <1>1, <1>4 DEF SpinLockHeld
<1>8. FilesOK'
  <2>1. P \subseteq 1..opens'
    BY <1>1, <1>2 DEF FilesOK
  <2>2. \A q \in Processes : pc'[q] \in Opening =>
            q # p /\ pc[q] \in Opening /\ frame'[q].file = frame[q].file
    BY <1>4 DEF Opening
  <2>3. \A q \in Processes : pc'[q] \in Opening => frame'[q].file # f
    BY <1>1, <2>2 DEF FilesOK, Opening
  <2>4. \A q \in Processes : pc'[q] \in Opening =>
            frame'[q].file \in 1..opens' /\ frame'[q].file \notin P
    BY <1>1, <1>2, <2>2, <2>3 DEF FilesOK
  <2>5. QED
    BY <1>7, <2>1, <2>2, <2>4 DEF FilesOK
<1>9. QED
  BY <1>6, <1>8

LEMMA ReleaseKeepsCount ==
    ASSUME Inv, NEW p \in Processes, Release(p) PROVE FilesOK' /\ OpenCounted'
<1> USE DEF Inv
<1> DEFINE R == Releasing
           S == Releasing'
<1>1. pc[p] = "release_dec" /\ dev_open_flag' = dev_open_flag - 1 /\ UNCHANGED <<opens, fds>>
  BY DEF Release, Ends, Goes
<1>2. \A q \in Processes : IF q = p THEN pc'[q] = "idle"
                                    ELSE pc'[q] = pc[q] /\ frame'[q] = frame[q]
  BY DEF Release, Ends, Goes, TypeInv, TypeOK
<1>3. OpenFiles' = OpenFiles
  BY <1>1 DEF OpenFiles
<1>4. S = R \ {p} /\ p \in R
  BY <1>1, <1>2 DEF Releasing
<1>5. Cardinality(S) = Cardinality(R) - 1
  <2>1. IsFiniteSet(R)
    BY CountsFinite
  <2> HIDE DEF R, S
  <2>2. QED
    BY <1>4, <2>1, FS_RemoveElement
<1>6. OpenCounted'
  BY <1>1, <1>3, <1>5, CountsFinite DEF OpenCounted, TypeInv, TypeOK
<1>7. \A q \in Processes : pc'[q] # "open_inc"
  BY <1>1, <1>2 DEF SpinLockHeld
<1>8. \A q \in Processes : pc'[q] \in Opening =>
          pc[q] \in Opening /\ frame'[q].file = frame[q].file
  BY <1>2 DEF Opening
<1>9. FilesOK'
  BY <1>1, <1>3, <1>7, <1>8 DEF FilesOK
<1>10. QED
  BY <1>6, <1>9

LEMMA SharingKeepsCount ==
    ASSUME Inv, NEW p \in Processes,
           (\E q \in Processes : Fork(p, q)) \/ (\E f \in fds[p] : Close(p, f))
    PROVE  FilesOK' /\ OpenCounted'
<1> USE DEF Inv
<1>1. UNCHANGED <<dev_open_flag, opens>> /\ pc[p] = "idle"
  BY DEF Fork, Close
<1>2. CASE OpenFiles' = OpenFiles /\ UNCHANGED <<pc, frame>>
  <2>1. Releasing' = Releasing
    BY <1>2 DEF Releasing
  <2>2. QED
    BY <1>1, <1>2, <2>1 DEF FilesOK, OpenCounted
<1>3. CASE \E q \in Processes : Fork(p, q)
  <2>1. PICK q \in Processes : fds[q] = {} /\ fds' = [fds EXCEPT ![q] = fds[p]] /\ UNCHANGED <<pc, frame>>
    BY <1>3 DEF Fork
  <2>2. OpenFiles' = OpenFiles
    BY <2>1 DEF OpenFiles, TypeInv, TypeOK
  <2>3. QED
    BY <1>2, <2>1, <2>2
<1>4. CASE \E f \in fds[p] : Close(p, f)
  <2>1. PICK f \in fds[p] : Close(p, f)
    BY <1>4
  <2>2. fds' = [fds EXCEPT ![p] = @ \ {f}] /\ f \in OpenFiles
    BY <2>1 DEF Close, OpenFiles
  <2>3. CASE \E q \in Processes \ {p} : f \in fds[q]
    <3>1. OpenFiles' = OpenFiles
      BY <2>2, <2>3 DEF OpenFiles, TypeInv, TypeOK
    <3>2. QED
      BY <1>2, <2>1, <2>3, <3>1 DEF Close
  <2>4. CASE ~ \E q \in Processes \ {p} : f \in fds[q]
    <3> DEFINE O == OpenFiles
               P == OpenFiles'
               R == Releasing
               S == Releasing'
    <3>1. P = O \ {f}
      BY <2>2, <2>4 DEF OpenFiles, TypeInv, TypeOK
    <3>2. \A q \in Processes : IF q = p THEN pc'[q] = "release"
                                        ELSE pc'[q] = pc[q] /\ frame'[q] = frame[q]
      BY <2>1, <2>4 DEF Close, Goes, TypeInv, TypeOK
    <3>3. S = R \cup {p} /\ p \notin R
      BY <1>1, <3>2 DEF Releasing
    <3>4. IsFiniteSet(O) /\ IsFiniteSet(R) /\ f \in O
      BY <2>2, CountsFinite
    <3>5. /\ Cardinality(O) \in Nat /\ Cardinality(R) \in Nat
          /\ Cardinality(P) = Cardinality(O) - 1
          /\ Cardinality(S) = Cardinality(R) + 1
      <4> HIDE DEF O, P, R, S
      <4>1. QED
        BY <3>1, <3>3, <3>4, FS_AddElement, FS_RemoveElement, FS_CardinalityType
    <3>6. OpenCounted'
      BY <1>1, <3>5 DEF OpenCounted, TypeInv, TypeOK
    <3>7. \A q \in Processes : pc'[q] \in Opening =>
              pc[q] \in Opening /\ pc'[q] = pc[q] /\ frame'[q].file = frame[q].file
      BY <3>2 DEF Opening
    <3>8. FilesOK'
      <4>1. P \subseteq O
        BY <3>1
      <4>2. \A q \in Processes : pc'[q] = "open_inc" => dev_open_flag' = 0
        BY <1>1, <3>2 DEF FilesOK
      <4>3. QED
        BY <1>1, <3>7, <4>1, <4>2 DEF FilesOK
    <3>9. QED
      BY <3>6, <3>8
  <2>5. QED
    BY <2>3, <2>4
<1>5. QED
  BY <1>3, <1>4

LEMMA InitCount == Init => FilesOK /\ OpenCounted
<1> SUFFICES ASSUME Init PROVE FilesOK /\ OpenCounted
  OBVIOUS
<1>1. OpenFiles = {} /\ Releasing = {}
  BY DEF Init, OpenFiles, Releasing
<1>2. Cardinality(OpenFiles) = 0 /\ Cardinality(Releasing) = 0
  BY <1>1, FS_EmptySet
<1>3. QED
  BY <1>1, <1>2 DEF Init, FilesOK, OpenCounted, Opening

LEMMA NextKeepsCount == Inv /\ [Next]_vars => FilesOK' /\ OpenCounted'
<1> SUFFICES ASSUME Inv, [Next]_vars PROVE FilesOK' /\ OpenCounted'
  OBVIOUS
<1> USE DEF Inv
<1>1. CASE Register \/ CopyInitial \/ UNCHANGED vars
  <2>1. UNCHANGED <<opening, pc, frame>>
    BY <1>1 DEF Register, CopyInitial, vars
  <2>2. OpenFiles' = OpenFiles /\ Releasing' = Releasing
    BY <2>1 DEF OpenFiles, Releasing, opening
  <2>3. QED
    BY <2>1, <2>2 DEF FilesOK, OpenCounted, opening
<1>2. CASE Unload
  <2>1. OpenFiles' = {} /\ Releasing' = {}
    BY <1>2 DEF Unload, OpenFiles, Releasing
  <2>2. Cardinality(OpenFiles') = 0 /\ Cardinality(Releasing') = 0
    BY <2>1, FS_EmptySet
  <2>3. QED
    BY <1>2, <2>1, <2>2 DEF Unload, FilesOK, OpenCounted, Opening
<1>3. ASSUME NEW p \in Processes, Step(p) PROVE FilesOK' /\ OpenCounted'
  <2>1. CASE OpenTaken(p)
    BY <2>1, OpenTakenKeepsCount
  <2>2. CASE Release(p)
    BY <2>2, ReleaseKeepsCount
  <2>3. CASE SpinLock(p) \/ OpenBusy(p) \/ OpenFree(p)
    <3>1. UNCHANGED <<dev_open_flag, opens, fds>>
      BY <2>3 DEF SpinLock, OpenBusy, OpenFree, opening
    <3>2. PICK l \in {"open_test", "release_dec", "idle", "open_inc"}, g \in {frame[p], NoFrame} :
              /\ Moves(p, l, g)
              /\ l \in Leaving <=> pc[p] \in Leaving
              /\ l \in Opening => pc[p] \in Opening /\ g.file = frame[p].file
              /\ l = "open_inc" => dev_open_flag = 0
      <4>1. CASE SpinLock(p)
        <5>1. PICK l \in {"open_test", "release_dec"} :
                  pc[p] = (IF l = "open_test" THEN "open" ELSE "release") /\ Moves(p, l, frame[p])
          BY <4>1 DEF SpinLock, Goes, Moves, TypeInv, TypeOK
        <5>2. QED
          BY <5>1 DEF Leaving, Opening
      <4>2. CASE OpenBusy(p)
        <5>1. pc[p] = "open_test" /\ Moves(p, "idle", NoFrame)
          BY <4>2 DEF OpenBusy, Ends, Goes, Moves
        <5>2. QED
          BY <5>1 DEF Leaving, Opening
      <4>3. CASE OpenFree(p)
        <5>1. pc[p] = "open_test" /\ Moves(p, "open_inc", frame[p]) /\ dev_open_flag = 0
          BY <4>3 DEF OpenFree, Goes, Moves, TypeInv, TypeOK
        <5>2. QED
          BY <5>1 DEF Leaving, Opening
      <4>4. QED
        BY <2>3, <4>1, <4>2, <4>3
    <3>3. QED
      BY <3>1, <3>2, QuietMove DEF Locations
  <2>4. CASE \/ ReadChar(p) \/ ReadFaults(p) \/ ReadEnds(p)
             \/ WriteChar(p) \/ WriteEnds(p) \/ Return(p)
    <3>1. UNCHANGED <<dev_open_flag, opens, fds>>
      BY <2>4 DEF ReadChar, ReadFaults, ReadEnds, WriteChar, WriteEnds, Return, opening
    <3>2. PICK l \in {"read", "write", "return", "idle"} :
              /\ pc[p] \in {"read", "write", "return"}
              /\ pc' = [pc EXCEPT ![p] = l] /\ \E g : frame' = [frame EXCEPT ![p] = g]
      BY <2>4 DEF ReadChar, ReadFaults, ReadEnds, WriteChar, WriteEnds, Return, Ends, Goes,
                  TypeInv, TypeOK
    <3>3. QED
      BY <3>1, <3>2, QuietMove DEF Moves, Locations, Leaving, Opening
  <2>5. QED
    BY <1>3, <2>1, <2>2, <2>3, <2>4 DEF Step
<1>4. ASSUME NEW p \in Processes, Call(p) PROVE FilesOK' /\ OpenCounted'
  <2>1. CASE Open(p)
    BY <2>1, OpenKeepsCount
  <2>2. CASE (\E q \in Processes : Fork(p, q)) \/ (\E f \in fds[p] : Close(p, f))
    BY <2>2, SharingKeepsCount
  <2>3. ASSUME NEW l \in {"read", "write", "return"}, NEW g, BeginCall(p, l, g)
        PROVE  FilesOK' /\ OpenCounted'
    <3>1. /\ UNCHANGED <<dev_open_flag, opens, fds>> /\ pc[p] = "idle" /\ Moves(p, l, g)
      BY <2>3 DEF BeginCall, Goes, Moves, opening
    <3>2. QED
      BY <3>1, QuietMove DEF Locations, Leaving, Opening
  <2>4. QED
    BY <1>4, <2>1, <2>2, <2>3 DEF Call, Refuse, Write, Read
<1>5. QED
  BY <1>1, <1>2, <1>3, <1>4 DEF Next

LEMMA Invariance == Spec => []Inv
<1>1. Init => FilesOK /\ OpenCounted
  BY InitCount
<1>2. (FilesOK /\ OpenCounted) /\ (TypeInv /\ SpinLockHeld) /\ [Next]_vars
          => (FilesOK /\ OpenCounted)'
  BY NextKeepsCount DEF Inv
<1>3. Spec => [](FilesOK /\ OpenCounted)
  BY <1>1, <1>2, LockInvariance, PTL DEF Spec
<1>4. Inv <=> (TypeInv /\ SpinLockHeld) /\ (FilesOK /\ OpenCounted)
  BY DEF Inv
<1>5. QED
  BY <1>3, <1>4, LockInvariance, PTL

(* "We don't want to talk to two processes at the same time": the flag is  *)
(* up exactly while there is an open file or one is about to be released,  *)
(* and there is never more than one, whatever children inherit it.         *)
THEOREM OneOpenFile == Spec => []OpenCounted
<1>1. Inv => OpenCounted
  BY DEF Inv
<1>2. QED
  BY <1>1, Invariance, PTL

-----------------------------------------------------------------------------
(* Calls of read() and write() *)

(* A call in progress is of a file the process has, and what its location  *)
(* says of its locals.                                                     *)
CallFits(l, g, files) ==
    /\ l \in {"read", "write", "return"} => g.file \in files
    /\ l = "read" => g.op = "read"
    /\ l = "write" => g.op = "write"
    /\ g.op = "read" => l \in {"read", "return"}
    /\ g.op = "write" => l \in {"write", "return"}
    /\ g.op # "read" => g.got = <<>>
    /\ g.op = "write" /\ l = "return" => g.at = 0

CallsOK == \A p \in Processes : CallFits(pc[p], frame[p], fds[p])

Owns(p, f) == fds[p] = {f} /\ \A q \in Processes \ {p} : fds[q] = {}

(* How far the call of p, which has f to itself, has come. *)
Progress(p, f) ==
    /\ pc[p] = "read" => frame[p].at = offset[f] + Len(frame[p].got)
    /\ pc[p] = "return" /\ frame[p].op = "read" =>
           frame[p].at = IF offset[f] + Len(frame[p].got) = BufLen THEN 0
                         ELSE offset[f] + Len(frame[p].got)
    /\ pc[p] = "return" /\ frame[p].op = "none" => frame[p].at = offset[f]
    /\ pc[p] = "write" =>
           /\ frame[p].at <= frame[p].end + 1
           /\ \A i \in 0..BufLen - 1 :
                  i < frame[p].at /\ i < frame[p].end => Message[i] = frame[p].text

SoleOK ==
    alone =>
        /\ module = "ready"
        /\ \E p \in Processes, f \in Files : Owns(p, f) /\ Progress(p, f)

Busy == {"read", "write", "return"}

LEMMA NoFrameFields == NoFrame.op = "none" /\ NoFrame.got = <<>>
BY DEF NoFrame

(* One process moves, and the others have the files they had. *)
LEMMA CallMove ==
    ASSUME TypeInv, CallsOK, NEW p \in Processes, NEW l, NEW g, Moves(p, l, g),
           \A q \in Processes \ {p} : fds'[q] = fds[q],
           CallFits(l, g, fds'[p])
    PROVE  CallsOK'
<1>1. \A q \in Processes : IF q = p THEN pc'[q] = l /\ frame'[q] = g
                                    ELSE pc'[q] = pc[q] /\ frame'[q] = frame[q]
  BY DEF TypeInv, TypeOK, Moves
<1>2. SUFFICES ASSUME NEW q \in Processes PROVE CallFits(pc'[q], frame'[q], fds'[q])
  BY DEF CallsOK
<1>3. CallFits(pc[q], frame[q], fds[q])
  BY DEF CallsOK
<1>4. QED
  BY <1>1, <1>3

(* A read() or write() of f starts. *)
Starts(p, f) ==
    \E l, g : /\ l \in Busy /\ Moves(p, l, g)
              /\ UNCHANGED fds /\ CallFits(l, g, {f})

LEMMA NextKeepsCalls == TypeInv /\ CallsOK /\ [Next]_vars => CallsOK'
<1> SUFFICES ASSUME TypeInv, CallsOK, [Next]_vars PROVE CallsOK'
  OBVIOUS
<1>1. CASE Register \/ CopyInitial \/ UNCHANGED vars
  BY <1>1 DEF Register, CopyInitial, vars, opening, CallsOK
<1>2. CASE Unload
  <2>1. \A p \in Processes : pc'[p] = "idle" /\ frame'[p] = NoFrame
    BY <1>2 DEF Unload
  <2>2. QED
    BY <2>1, NoFrameFields DEF CallsOK, CallFits
<1>3. ASSUME NEW p \in Processes, Step(p) \/ Call(p) PROVE CallsOK'
  <2>1. /\ CallFits(pc[p], frame[p], fds[p]) /\ frame[p] \in Frames
        /\ pc \in [Processes -> Locations] /\ frame \in [Processes -> Frames]
        /\ fds \in [Processes -> SUBSET Files]
    BY DEF CallsOK, TypeInv, TypeOK, Locations
  <2>2. CASE OpenBusy(p) \/ OpenTaken(p) \/ Release(p) \/ Return(p)
    <3>1. Moves(p, "idle", NoFrame) /\ \A q \in Processes \ {p} : fds'[q] = fds[q]
      BY <2>1, <2>2 DEF OpenBusy, OpenTaken, Release, Return, Ends, Goes, Moves, opening
    <3>2. CallFits("idle", NoFrame, fds'[p])
      BY NoFrameFields DEF CallFits
    <3>3. QED
      BY <3>1, <3>2, CallMove
  <2>3. CASE SpinLock(p) \/ OpenFree(p)
    <3>1. PICK l \in {"open_test", "open_inc", "release_dec"} :
              /\ pc[p] \notin Busy /\ Moves(p, l, frame[p]) /\ UNCHANGED fds
      BY <2>1, <2>3 DEF SpinLock, OpenFree, Goes, Moves, opening, Busy
    <3>2. CallFits(l, frame[p], fds'[p])
      BY <2>1, <3>1 DEF CallFits, Busy
    <3>3. QED
      BY <3>1, <3>2, CallMove
  <2>4. CASE ReadFaults(p)
    <3>1. pc[p] = "read" /\ Moves(p, "return", frame[p]) /\ UNCHANGED fds
      BY <2>1, <2>4 DEF ReadFaults, Goes, Moves, opening
    <3>2. CallFits("return", frame[p], fds'[p])
      BY <2>1, <3>1 DEF CallFits
    <3>3. QED
      BY <3>1, <3>2, CallMove
  <2>5. CASE ReadChar(p) \/ ReadEnds(p) \/ WriteChar(p) \/ WriteEnds(p)
    <3>1. CASE ReadChar(p)
      <4>1. PICK g : g = [frame[p] EXCEPT !.at = frame[p].at + 1,
                                       !.got = Append(frame[p].got, Message[frame[p].at])]
        OBVIOUS
      <4>2. pc[p] = "read" /\ Moves(p, "read", g) /\ UNCHANGED fds
        BY <2>1, <3>1, <4>1 DEF ReadChar, Goes, Moves, opening
      <4>3. g.op = frame[p].op /\ g.file = frame[p].file
        BY <2>1, <4>1 DEF Frames
      <4>4. CallFits("read", g, fds'[p])
        BY <2>1, <4>2, <4>3 DEF CallFits
      <4>5. QED
        BY <4>2, <4>4, CallMove
    <3>2. CASE ReadEnds(p)
      <4>1. PICK g : g = [frame[p] EXCEPT !.at = IF frame[p].at = BufLen THEN 0 ELSE frame[p].at]
        OBVIOUS
      <4>2. pc[p] = "read" /\ Moves(p, "return", g) /\ UNCHANGED fds
        BY <2>1, <3>2, <4>1 DEF ReadEnds, Goes, Moves, opening
      <4>3. g.op = frame[p].op /\ g.file = frame[p].file
        BY <2>1, <4>1 DEF Frames
      <4>4. CallFits("return", g, fds'[p])
        BY <2>1, <4>2, <4>3 DEF CallFits
      <4>5. QED
        BY <4>2, <4>4, CallMove
    <3>3. CASE WriteChar(p)
      <4>1. PICK g : g = [frame[p] EXCEPT !.at = frame[p].at + 1]
        OBVIOUS
      <4>2. pc[p] = "write" /\ Moves(p, "write", g) /\ UNCHANGED fds
        BY <2>1, <3>3, <4>1 DEF WriteChar, Goes, Moves, opening
      <4>3. g.op = frame[p].op /\ g.file = frame[p].file /\ g.got = frame[p].got
        BY <2>1, <4>1 DEF Frames
      <4>4. CallFits("write", g, fds'[p])
        BY <2>1, <4>2, <4>3 DEF CallFits
      <4>5. QED
        BY <4>2, <4>4, CallMove
    <3>4. CASE WriteEnds(p)
      <4>1. PICK g : g = [frame[p] EXCEPT !.at = 0]
        OBVIOUS
      <4>2. pc[p] = "write" /\ Moves(p, "return", g) /\ UNCHANGED fds
        BY <2>1, <3>4, <4>1 DEF WriteEnds, Goes, Moves, opening
      <4>3. g.op = frame[p].op /\ g.file = frame[p].file /\ g.got = frame[p].got /\ g.at = 0
        BY <2>1, <4>1 DEF Frames
      <4>4. CallFits("return", g, fds'[p])
        BY <2>1, <4>2, <4>3 DEF CallFits
      <4>5. QED
        BY <4>2, <4>4, CallMove
    <3>5. QED
      BY <2>5, <3>1, <3>2, <3>3, <3>4
  <2>6. CASE Open(p)
    <3>1. Moves(p, "open", [frame[p] EXCEPT !.file = opens + 1]) /\ pc[p] = "idle" /\ UNCHANGED fds
      BY <2>1, <2>6 DEF Open, Goes, Moves
    <3>2. PICK g : g = [frame[p] EXCEPT !.file = opens + 1]
      OBVIOUS
    <3>3. g.op = frame[p].op /\ g.got = frame[p].got
      BY <2>1, <3>2 DEF Frames
    <3>4. CallFits("open", g, fds'[p])
      BY <2>1, <3>1, <3>3 DEF CallFits
    <3>5. QED
      BY <3>1, <3>2, <3>4, CallMove
  <2>7. CASE \E q \in Processes : Fork(p, q)
    <3>1. PICK q \in Processes : /\ pc[q] = "idle" /\ fds' = [fds EXCEPT ![q] = fds[p]]
                                 /\ UNCHANGED <<pc, frame>>
      BY <2>7 DEF Fork
    <3>2. QED
      BY <2>1, <3>1 DEF CallsOK, CallFits
  <2>8. ASSUME NEW f \in fds[p], Close(p, f) PROVE CallsOK'
    <3>1. pc[p] = "idle" /\ fds' = [fds EXCEPT ![p] = @ \ {f}]
      BY <2>8 DEF Close
    <3>2. CASE UNCHANGED <<pc, frame>>
      BY <2>1, <3>1, <3>2 DEF CallsOK, CallFits
    <3>3. CASE Goes(p, "idle", "release") /\ frame' = [frame EXCEPT ![p].file = f]
      <4>1. Moves(p, "release", [frame[p] EXCEPT !.file = f])
        BY <2>1, <3>3 DEF Goes, Moves
      <4>2. PICK g : g = [frame[p] EXCEPT !.file = f]
        OBVIOUS
      <4>3. g.op = frame[p].op /\ g.got = frame[p].got
        BY <2>1, <4>2 DEF Frames
      <4>4. CallFits("release", g, fds'[p])
        BY <2>1, <3>1, <4>3 DEF CallFits
      <4>5. QED
        BY <2>1, <3>1, <4>1, <4>2, <4>4, CallMove
    <3>4. QED
      BY <2>8, <3>2, <3>3 DEF Close
  <2>9. ASSUME NEW f \in fds[p],
               \/ Refuse(p, f)
               \/ \E n \in WriteLengths : Write(p, f, n)
               \/ \E n \in ReadLengths, room \in Rooms : Read(p, f, n, room)
        PROVE  CallsOK'
    <3>0. Starts(p, f)
      <4>1. CASE Refuse(p, f)
        <5>1. PICK g : g = [NoFrame EXCEPT !.file = f, !.at = offset[f]]
          OBVIOUS
        <5>2. Moves(p, "return", g) /\ UNCHANGED fds
          BY <4>1, <5>1 DEF Refuse, BeginCall, Goes, Moves, opening
        <5>3. CallFits("return", g, {f})
          <6>1. g.op = "none" /\ g.file = f /\ g.got = <<>>
            BY <5>1 DEF NoFrame
          <6>2. QED
            BY <6>1 DEF CallFits
        <5>4. QED
          BY <5>2, <5>3 DEF Starts, Busy
      <4>2. ASSUME NEW n \in WriteLengths, Write(p, f, n) PROVE Starts(p, f)
        <5>1. PICK g : g = [NoFrame EXCEPT !.op = "write", !.file = f, !.text = calls + 1,
                                      !.end = Smaller(n, BufLen - 1)]
          OBVIOUS
        <5>2. Moves(p, "write", g) /\ UNCHANGED fds
          BY <4>2, <5>1 DEF Write, BeginCall, Goes, Moves, opening
        <5>3. CallFits("write", g, {f})
          <6>1. g.op = "write" /\ g.file = f /\ g.got = <<>>
            BY <5>1 DEF NoFrame
          <6>2. QED
            BY <6>1 DEF CallFits
        <5>4. QED
          BY <5>2, <5>3 DEF Starts, Busy
      <4>3. ASSUME NEW n \in ReadLengths, NEW room \in Rooms, Read(p, f, n, room)
            PROVE  Starts(p, f)
        <5>1. PICK g : g = [NoFrame EXCEPT !.op = "read", !.file = f, !.at = offset[f], !.room = room,
                                      !.end = EndRead(offset[f], n)]
          OBVIOUS
        <5>2. Moves(p, "read", g) /\ UNCHANGED fds
          BY <4>3, <5>1 DEF Read, BeginCall, Goes, Moves, opening
        <5>3. CallFits("read", g, {f})
          <6>1. g.op = "read" /\ g.file = f /\ g.got = <<>>
            BY <5>1 DEF NoFrame
          <6>2. QED
            BY <6>1 DEF CallFits
        <5>4. QED
          BY <5>2, <5>3 DEF Starts, Busy
      <4>4. QED
        BY <2>9, <4>1, <4>2, <4>3
    <3>1. PICK l, g : /\ l \in Busy /\ Moves(p, l, g)
                      /\ UNCHANGED fds /\ CallFits(l, g, {f})
      BY <3>0 DEF Starts
    <3>2. CallFits(l, g, fds'[p])
      BY <3>1 DEF CallFits
    <3>3. QED
      BY <3>1, <3>2, CallMove
  <2>10. QED
    BY <1>3, <2>2, <2>3, <2>4, <2>5, <2>6, <2>7, <2>8, <2>9 DEF Step, Call
<1>4. QED
  BY <1>1, <1>2, <1>3 DEF Next

-----------------------------------------------------------------------------
(* The process that has the device to itself *)

RefInv == Inv /\ CallsOK /\ SoleOK

(* Where the flag is about to be raised there is no open file. *)
LEMMA NoFileYet ==
    ASSUME Inv, NEW p \in Processes, pc[p] = "open_inc"
    PROVE  dev_open_flag = 0 /\ OpenFiles = {} /\ \A q \in Processes : fds[q] = {}
<1> DEFINE O == OpenFiles
           R == Releasing
<1>1. dev_open_flag = 0 /\ Cardinality(O) + Cardinality(R) = dev_open_flag
  BY DEF Inv, FilesOK, OpenCounted
<1>2. IsFiniteSet(O) /\ Cardinality(O) \in Nat /\ Cardinality(R) \in Nat
  BY CountsFinite DEF Inv
<1>3. O = {}
  <2> HIDE DEF O, R
  <2>1. Cardinality(O) = 0
    BY <1>1, <1>2
  <2>2. QED
    BY <1>2, <2>1, FS_EmptySet
<1>4. QED
  BY <1>1, <1>3 DEF OpenFiles

(* What the owner does with its file. *)
OwnerActs(p, f) ==
    \/ Refuse(p, f)
    \/ \E n \in WriteLengths : Write(p, f, n)
    \/ \E n \in ReadLengths, room \in Rooms : Read(p, f, n, room)
    \/ ReadChar(p) \/ ReadFaults(p) \/ ReadEnds(p)
    \/ WriteChar(p) \/ WriteEnds(p) \/ Return(p)

(* A step that does not concern it: another process, or p elsewhere. *)
Quiet(p) ==
    /\ UNCHANGED <<memory, calls, offset>>
    /\ \/ frame'[p] = frame[p] /\ pc'[p] = pc[p]
       \/ pc[p] \notin Busy /\ pc'[p] \notin Busy

LEMMA SoleSteps ==
    ASSUME RefInv, [Next]_vars, alone, alone', module = "ready",
           NEW p \in Processes, NEW f \in Files, Owns(p, f)
    PROVE  /\ UNCHANGED <<fds, module>>
           /\ Quiet(p) \/ OwnerActs(p, f)
<1>1. /\ pc \in [Processes -> Locations] /\ frame \in [Processes -> Frames]
      /\ \A q \in Processes : CallFits(pc[q], frame[q], fds[q])
  BY DEF RefInv, Inv, TypeInv, TypeOK, Locations, CallsOK
<1>2. ~(Register \/ CopyInitial \/ Unload)
  BY DEF Register, CopyInitial, Unload
<1>3. CASE UNCHANGED vars
  BY <1>3 DEF vars, loading, opening, Quiet
<1>4. ASSUME NEW r \in Processes, Step(r) \/ Call(r)
      PROVE  UNCHANGED <<fds, module>> /\ (Quiet(p) \/ OwnerActs(p, f))
  <2>1. ~OpenTaken(r)
    BY NoFileYet DEF OpenTaken, Ends, Goes, RefInv, Owns
  <2>2. r # p => pc[r] \notin {"read", "write", "return"}
    BY <1>1 DEF CallFits, Owns
  <2>3. CASE SpinLock(r) \/ OpenBusy(r) \/ OpenFree(r) \/ Release(r) \/ Open(r)
    <3>1. UNCHANGED <<fds, module, memory, calls, offset>>
      BY <2>3 DEF SpinLock, OpenBusy, OpenFree, Release, Open, loading, opening
    <3>2. PICK l, g : l \in Locations \ Busy /\ pc[r] \notin Busy /\ Moves(r, l, g)
      BY <1>1, <2>3 DEF SpinLock, OpenBusy, OpenFree, Release, Open, Ends, Goes, Moves, Busy,
                        Locations
    <3>3. Quiet(p)
      BY <1>1, <3>1, <3>2 DEF Quiet, Moves
    <3>4. QED
      BY <3>1, <3>3
  <2>4. CASE \/ ReadChar(r) \/ ReadFaults(r) \/ ReadEnds(r)
             \/ WriteChar(r) \/ WriteEnds(r) \/ Return(r)
    <3>1. UNCHANGED <<fds, module>>
      BY <2>4 DEF ReadChar, ReadFaults, ReadEnds, WriteChar, WriteEnds, Return, loading, opening
    <3>2. pc[r] \in {"read", "write", "return"}
      BY <2>4 DEF ReadChar, ReadFaults, ReadEnds, WriteChar, WriteEnds, Return, Ends, Goes
    <3>3. r = p
      BY <2>2, <3>2
    <3>4. QED
      BY <2>4, <3>1, <3>3 DEF OwnerActs
  <2>5. ~ \E q \in Processes : Fork(r, q)
    BY DEF Fork
  <2>6. ASSUME NEW g \in fds[r] PROVE r = p /\ g = f /\ ~Close(r, g)
    <3>1. r = p /\ g = f
      BY <2>6 DEF Owns
    <3>2. QED
      BY <3>1 DEF Close, Owns
  <2>7. ASSUME NEW g \in fds[r],
               \/ Refuse(r, g)
               \/ \E n \in WriteLengths : Write(r, g, n)
               \/ \E n \in ReadLengths, room \in Rooms : Read(r, g, n, room)
        PROVE  UNCHANGED <<fds, module>> /\ OwnerActs(p, f)
    <3>1. UNCHANGED <<fds, module>>
      BY <2>7 DEF Refuse, Write, Read, BeginCall, loading, opening
    <3>2. QED
      BY <2>6, <2>7, <3>1 DEF OwnerActs
  <2>8. QED
    BY <1>4, <2>1, <2>3, <2>4, <2>5, <2>6, <2>7 DEF Step, Call
<1>5. QED
  BY <1>2, <1>3, <1>4 DEF Next

(* The same, as it changes what the owner sees. *)
Refused(p, f) ==
    /\ pc[p] = "idle" /\ pc'[p] = "return" /\ frame'[p].op = "none"
    /\ frame'[p].at = offset[f] /\ frame'[p].got = <<>>
    /\ calls' = calls + 1 /\ UNCHANGED <<memory, offset>>

ReadBegins(p, f) ==
    /\ pc[p] = "idle" /\ pc'[p] = "read" /\ frame'[p].op = "read"
    /\ frame'[p].at = offset[f] /\ frame'[p].got = <<>>
    /\ calls' = calls + 1 /\ UNCHANGED <<memory, offset>>

WriteBegins(p) ==
    /\ pc[p] = "idle" /\ pc'[p] = "write" /\ frame'[p].op = "write"
    /\ frame'[p].at = 0 /\ frame'[p].end \in 0..BufLen - 1
    /\ frame'[p].text = calls + 1 /\ frame'[p].got = <<>>
    /\ calls' = calls + 1 /\ UNCHANGED <<memory, offset>>

CharRead(p) ==
    /\ pc[p] = "read" /\ pc'[p] = "read" /\ frame'[p].op = frame[p].op
    /\ frame[p].at < last_written
    /\ frame'[p].at = frame[p].at + 1
    /\ frame'[p].got = Append(frame[p].got, Message[frame[p].at])
    /\ UNCHANGED <<memory, calls, offset>>

ReadStops(p) ==
    /\ pc[p] = "read" /\ pc'[p] = "return" /\ frame'[p].op = frame[p].op
    /\ frame'[p].at = (IF frame[p].at = BufLen THEN 0 ELSE frame[p].at)
    /\ frame'[p].got = frame[p].got
    /\ UNCHANGED <<memory, calls, offset>>

CharWritten(p) ==
    /\ pc[p] = "write" /\ pc'[p] = "write" /\ frame'[p].op = frame[p].op
    /\ frame[p].at <= frame[p].end
    /\ Message' = [Message EXCEPT ![frame[p].at] =
                       IF frame[p].at < frame[p].end THEN frame[p].text ELSE Nul]
    /\ frame'[p].at = frame[p].at + 1 /\ frame'[p].end = frame[p].end
    /\ frame'[p].text = frame[p].text /\ frame'[p].got = frame[p].got
    /\ UNCHANGED <<last_written, calls, offset>>

WriteStops(p) ==
    /\ pc[p] = "write" /\ pc'[p] = "return" /\ frame'[p].op = frame[p].op
    /\ frame[p].at > frame[p].end
    /\ last_written' = frame[p].end /\ frame'[p].at = 0
    /\ frame'[p].got = frame[p].got
    /\ UNCHANGED <<Message, calls, offset>>

Returns(p, f) ==
    /\ pc[p] = "return" /\ pc'[p] = "idle" /\ frame'[p] = NoFrame
    /\ offset' = [offset EXCEPT ![f] = frame[p].at]
    /\ UNCHANGED <<memory, calls>>

(* What is known of the owner before its step. *)
OwnerFacts(p, f) ==
    /\ frame[p] \in Frames /\ frame[p].at \in 0..BufLen /\ frame[p].end \in 0..BufLen
    /\ frame[p].got \in Seq(Characters) /\ Len(frame[p].got) \in Nat
    /\ CallFits(pc[p], frame[p], {f})
    /\ offset \in [Files -> 0..BufLen - 1] /\ offset[f] \in 0..BufLen - 1
    /\ last_written \in 0..BufLen /\ Message \in [0..BufLen - 1 -> Characters]

LEMMA OwnerKnown ==
    ASSUME RefInv, NEW p \in Processes, NEW f \in Files, Owns(p, f) PROVE OwnerFacts(p, f)
<1>1. /\ frame \in [Processes -> Frames] /\ CallFits(pc[p], frame[p], fds[p]) /\ fds[p] = {f}
      /\ offset \in [Files -> 0..BufLen - 1] /\ last_written \in 0..BufLen
      /\ Message \in [0..BufLen - 1 -> Characters]
  BY DEF RefInv, Inv, TypeInv, TypeOK, CallsOK, Owns
<1>2. /\ frame[p] \in Frames /\ frame[p].at \in 0..BufLen /\ frame[p].end \in 0..BufLen
      /\ frame[p].got \in Seq(Characters)
  BY <1>1 DEF Frames
<1>3. QED
  BY <1>1, <1>2, LenProperties DEF OwnerFacts

LEMMA OwnerEffects ==
    ASSUME RefInv, NEW p \in Processes, NEW f \in Files, Owns(p, f), OwnerActs(p, f)
    PROVE  \/ Refused(p, f) \/ ReadBegins(p, f) \/ WriteBegins(p)
           \/ CharRead(p) \/ ReadStops(p) \/ CharWritten(p) \/ WriteStops(p)
           \/ Returns(p, f)
<1>1. /\ pc \in [Processes -> Locations] /\ frame \in [Processes -> Frames]
      /\ OwnerFacts(p, f)
  BY OwnerKnown DEF RefInv, Inv, TypeInv, TypeOK, Locations
<1> USE DEF OwnerFacts
<1>2. Refuse(p, f) => Refused(p, f)
  BY <1>1 DEF Refuse, BeginCall, Goes, NoFrame, Refused
<1>3. ASSUME NEW n \in WriteLengths, Write(p, f, n) PROVE WriteBegins(p)
  <2>1. Smaller(n, BufLen - 1) \in 0..BufLen - 1
    BY Sizes, DeviceAssumption DEF Smaller
  <2>2. QED
    BY <1>1, <1>3, <2>1 DEF Write, BeginCall, Goes, NoFrame, WriteBegins
<1>4. ASSUME NEW n \in ReadLengths, NEW room \in Rooms, Read(p, f, n, room)
      PROVE  ReadBegins(p, f)
  BY <1>1, <1>4 DEF Read, BeginCall, Goes, NoFrame, ReadBegins
<1>5. ReadChar(p) => CharRead(p)
  BY <1>1 DEF ReadChar, Reading, Frames, CharRead
<1>6. ReadFaults(p) => ReadStops(p)
  BY <1>1, Sizes DEF ReadFaults, Reading, Goes, ReadStops
<1>7. ReadEnds(p) => ReadStops(p)
  BY <1>1 DEF ReadEnds, Goes, Frames, ReadStops
<1>8. WriteChar(p) => CharWritten(p)
  BY <1>1 DEF WriteChar, Frames, CharWritten
<1>9. WriteEnds(p) => WriteStops(p)
  BY <1>1 DEF WriteEnds, Goes, Frames, WriteStops
<1>10. Return(p) => Returns(p, f)
  BY <1>1 DEF Return, Ends, Goes, CallFits, Returns
<1>11. QED
  BY <1>2, <1>3, <1>4, <1>5, <1>6, <1>7, <1>8, <1>9, <1>10 DEF OwnerActs

(* The call of the owner goes on as Progress says. *)
LEMMA ProgressKept ==
    ASSUME RefInv, NEW p \in Processes, NEW f \in Files, Owns(p, f), Progress(p, f),
           Quiet(p) \/ OwnerActs(p, f)
    PROVE  Progress(p, f)'
<1>1. OwnerFacts(p, f)
  BY OwnerKnown
<1> USE Sizes DEF OwnerFacts
<1>2. CASE Quiet(p)
  BY <1>2 DEF Quiet, Progress, Busy, memory
<1>3. CASE Refused(p, f) \/ ReadBegins(p, f)
  <2>1. Len(<<>>) = 0
    OBVIOUS
  <2>2. QED
    BY <1>1, <1>3, <2>1 DEF Refused, ReadBegins, Progress
<1>4. CASE WriteBegins(p)
  BY <1>4 DEF WriteBegins, Progress
<1>5. CASE CharRead(p)
  <2>1. Len(frame'[p].got) = Len(frame[p].got) + 1
    <3>1. frame[p].at \in 0..BufLen - 1
      BY <1>1, <1>5 DEF CharRead
    <3>2. QED
      BY <1>1, <1>5, <3>1, AppendProperties DEF CharRead
  <2>2. QED
    BY <1>1, <1>5, <2>1 DEF CharRead, Progress
<1>6. CASE ReadStops(p)
  BY <1>1, <1>6 DEF ReadStops, Progress, CallFits
<1>7. CASE CharWritten(p)
  <2>1. /\ frame[p].at <= frame[p].end
        /\ \A i \in 0..BufLen - 1 :
               i < frame[p].at /\ i < frame[p].end => Message[i] = frame[p].text
    BY <1>7 DEF CharWritten, Progress
  <2>2. \A i \in 0..BufLen - 1 :
            i < frame[p].at + 1 /\ i < frame[p].end => Message'[i] = frame[p].text
    BY <1>1, <1>7, <2>1 DEF CharWritten
  <2>3. QED
    BY <1>1, <1>7, <2>1, <2>2 DEF CharWritten, Progress
<1>8. CASE WriteStops(p)
  BY <1>1, <1>8 DEF WriteStops, Progress, CallFits
<1>9. CASE Returns(p, f)
  BY <1>9 DEF Returns, Progress
<1>10. QED
  BY <1>2, <1>3, <1>4, <1>5, <1>6, <1>7, <1>8, <1>9, OwnerEffects

LEMMA NextKeepsSole == RefInv /\ [Next]_vars => SoleOK'
<1> SUFFICES ASSUME RefInv, [Next]_vars, alone' PROVE SoleOK'
  BY DEF SoleOK
<1>1. CASE alone
  <2>1. PICK p \in Processes, f \in Files : module = "ready" /\ Owns(p, f) /\ Progress(p, f)
    BY <1>1 DEF RefInv, SoleOK
  <2>2. UNCHANGED <<fds, module>> /\ (Quiet(p) \/ OwnerActs(p, f))
    BY <1>1, <2>1, SoleSteps
  <2>3. Progress(p, f)'
    BY <2>1, <2>2, ProgressKept
  <2>4. QED
    BY <2>1, <2>2, <2>3 DEF SoleOK, Owns
<1>2. CASE ~alone
  <2>1. PICK p \in Processes : OpenTaken(p)
    BY <1>2 DEF Next, Register, CopyInitial, Unload, Step, Call, SpinLock, OpenBusy, OpenFree,
        Release, ReadChar, ReadFaults, ReadEnds, WriteChar, WriteEnds, Return, Open, Fork,
        Close, Refuse, Write, Read, BeginCall, opening, vars
  <2>2. /\ \A q \in Processes : fds[q] = {}
        /\ fds' = [fds EXCEPT ![p] = @ \cup {frame[p].file}]
        /\ pc' = [pc EXCEPT ![p] = "idle"] /\ pc[p] = "open_inc"
        /\ module = "ready" /\ module' = module
    BY <1>2, <2>1, NoFileYet DEF OpenTaken, Ends, Goes, RefInv, loading
  <2>3. frame[p].file \in Files /\ pc'[p] = "idle"
    BY <2>2 DEF RefInv, Inv, TypeInv, TypeOK, FramesOK
  <2>4. PICK f \in Files : f = frame[p].file
    BY <2>3
  <2>5. Owns(p, f)'
    BY <2>2, <2>4 DEF Owns, RefInv, Inv, TypeInv, TypeOK
  <2>6. Progress(p, f)'
    BY <2>3 DEF Progress
  <2>7. QED
    BY <2>2, <2>5, <2>6 DEF SoleOK
<1>3. QED
  BY <1>1, <1>2

-----------------------------------------------------------------------------
(* The device as its owner sees it *)

View(p, f) ==
    /\ Text = IF pc[p] = "write" THEN [i \in 1..frame[p].end |-> frame[p].text]
              ELSE [i \in 1..last_written |-> Message[i - 1]]
    /\ Position = IF frame[p].op = "write" THEN 0 ELSE offset[f]
    /\ Handed = frame[p].got

OwnersView == \A p \in Processes, f \in Files : CallsOK /\ Owns(p, f) => View(p, f)

(* There is no other reader or writer, and no other file. *)
LEMMA ViewHolds == OwnersView
<1>1. SUFFICES ASSUME NEW p \in Processes, NEW f \in Files, CallsOK, Owns(p, f)
               PROVE  View(p, f)
  BY DEF OwnersView
<1>2. /\ \A q \in Processes : CallFits(pc[q], frame[q], fds[q])
      /\ fds[p] = {f} /\ \A q \in Processes \ {p} : fds[q] = {}
  BY <1>1 DEF CallsOK, Owns
<1>3. \A q \in Processes : frame[q].op \in {"read", "write"} \/ pc[q] = "write" => q = p
  BY <1>2 DEF CallFits
<1>4. OpenFiles = {f}
  BY <1>2 DEF OpenFiles
<1>5. Writers = IF frame[p].op = "write" THEN {p} ELSE {}
  BY <1>3 DEF Writers
<1>6. Text = IF pc[p] = "write" THEN [i \in 1..frame[p].end |-> frame[p].text]
             ELSE [i \in 1..last_written |-> Message[i - 1]]
  <2>1. CASE pc[p] = "write"
    <3>1. p \in Writers /\ \A q \in Writers : q = p
      BY <1>2, <1>5, <2>1 DEF CallFits
    <3>2. (CHOOSE q \in Writers : pc[q] = "write") = p
      BY <2>1, <3>1
    <3>3. QED
      BY <2>1, <3>1, <3>2 DEF Text
  <2>2. CASE pc[p] # "write"
    BY <1>5, <2>2 DEF Text
  <2>3. QED
    BY <2>1, <2>2
<1>7. Position = IF frame[p].op = "write" THEN 0 ELSE offset[f]
  <2>1. (CHOOSE g \in OpenFiles : TRUE) = f
    BY <1>4
  <2>2. QED
    BY <1>4, <1>5, <2>1 DEF Position
<1>8. Handed = frame[p].got
  <2>1. CASE frame[p].op = "read"
    <3>1. (CHOOSE q \in Processes : frame[q].op = "read") = p
      BY <1>3, <2>1
    <3>2. QED
      BY <2>1, <3>1 DEF Handed
  <2>2. CASE frame[p].op # "read"
    <3>1. ~ \E q \in Processes : frame[q].op = "read"
      BY <1>3, <2>2
    <3>2. frame[p].got = <<>>
      BY <1>2, <2>2 DEF CallFits
    <3>3. QED
      BY <3>1, <3>2 DEF Handed
  <2>3. QED
    BY <2>1, <2>2
<1>9. QED
  BY <1>6, <1>7, <1>8 DEF View

(* Positions are kept modulo the size of the buffer. *)
LEMMA Wraps ==
    ASSUME NEW a \in 0..BufLen
    PROVE  a % BufLen = IF a = BufLen THEN 0 ELSE a
BY Sizes

(* Each step of the owner is a step of MessageDevice, or none. *)
LEMMA OwnerRefines ==
    ASSUME RefInv, alone, alone', NEW p \in Processes, NEW f \in Files, Owns(p, f),
           Progress(p, f), View(p, f), View(p, f)', OwnerFacts(p, f), CallFits(pc[p], frame[p], {f})',
           Quiet(p) \/ OwnerActs(p, f)
    PROVE  [Device!Next]_Device!vars
<1> USE DEF OwnerFacts
<1>1. SUFFICES \/ Device!Begin \/ Device!Replace \/ Device!Hand \/ Device!Finish
               \/ UNCHANGED <<Text, Position, Handed, calls>>
  BY DEF Device!Next, Device!vars
<1>2. CASE Quiet(p)
  <2>1. /\ pc[p] = "write" <=> pc'[p] = "write"
        /\ pc[p] = "write" => frame'[p] = frame[p]
        /\ frame[p].op = "write" <=> frame'[p].op = "write"
        /\ frame[p].got = frame'[p].got
    BY <1>2 DEF Quiet, CallFits, Busy
  <2>2. UNCHANGED <<Message, last_written, calls, offset>>
    BY <1>2 DEF Quiet, memory
  <2>3. UNCHANGED <<Position, Handed>>
    BY <2>1, <2>2 DEF View
  <2>4. UNCHANGED Text
    BY <2>1, <2>2 DEF View
  <2>5. QED
    BY <2>2, <2>3, <2>4
<1>3. CASE Refused(p, f) \/ ReadBegins(p, f)
  <2>1. UNCHANGED <<Text, Position, Handed>> /\ Handed = <<>> /\ calls' = calls + 1
    BY <1>3 DEF Refused, ReadBegins, View, CallFits, memory
  <2>2. QED
    BY <2>1 DEF Device!Begin
<1>4. CASE WriteBegins(p)
  <2>1. Text' = [i \in 1..frame'[p].end |-> calls + 1]
    BY <1>4 DEF WriteBegins, View
  <2>2. Position' = 0 /\ Handed = <<>> /\ Handed' = <<>> /\ calls' = calls + 1
        /\ frame'[p].end \in 0..BufLen - 1
    BY <1>4 DEF WriteBegins, View, CallFits
  <2>3. QED
    BY <2>1, <2>2 DEF Device!Replace
<1>5. CASE CharRead(p)
  <2>1. /\ Text = [i \in 1..last_written |-> Message[i - 1]] /\ Text' = Text
        /\ Position = offset[f] /\ Position' = Position /\ calls' = calls
        /\ Handed = frame[p].got /\ Handed' = Append(Handed, Message[frame[p].at])
    BY <1>5 DEF CharRead, View, CallFits, memory
  <2>2. Position + Len(Handed) = frame[p].at
    BY <1>5, <2>1 DEF CharRead, Progress
  <2>3. Len(Text) = last_written
    BY <2>1
  <2>4. frame[p].at + 1 \in 1..last_written
    BY <1>5 DEF CharRead
  <2>5. Text[frame[p].at + 1] = Message[frame[p].at]
    BY <2>1, <2>4
  <2>6. QED
    BY <1>5, <2>1, <2>2, <2>3, <2>5 DEF Device!Hand, CharRead
<1>6. CASE ReadStops(p)
  BY <1>6 DEF ReadStops, View, CallFits, memory
<1>7. CASE CharWritten(p)
  BY <1>7 DEF CharWritten, View, CallFits
<1>8. CASE WriteStops(p)
  <2>1. \A i \in 1..frame[p].end : Message[i - 1] = frame[p].text
    <3>1. SUFFICES ASSUME NEW i \in 1..frame[p].end PROVE Message[i - 1] = frame[p].text
      OBVIOUS
    <3>2. i - 1 \in 0..BufLen - 1 /\ i - 1 < frame[p].at /\ i - 1 < frame[p].end
      BY <1>8, Sizes DEF WriteStops
    <3>3. QED
      BY <1>8, <3>2 DEF WriteStops, Progress
  <2>2. Text' = [i \in 1..frame[p].end |-> Message[i - 1]]
    BY <1>8 DEF WriteStops, View
  <2>3. Text' = Text
    BY <1>8, <2>1, <2>2 DEF WriteStops, View
  <2>4. QED
    BY <1>8, <2>3 DEF WriteStops, View, CallFits
<1>9. CASE Returns(p, f)
  <2>1. frame'[p].op = "none" /\ frame'[p].got = <<>>
    BY <1>9 DEF Returns, NoFrame
  <2>2. Text' = Text /\ calls' = calls /\ Handed' = <<>> /\ Position' = frame[p].at
    BY <1>9, <2>1 DEF Returns, View, memory
  <2>3. CASE frame[p].op = "read"
    <3>1. Position = offset[f] /\ Handed = frame[p].got
      BY <2>3 DEF View
    <3>2. Position + Len(Handed) \in 0..BufLen
          /\ frame[p].at = IF Position + Len(Handed) = BufLen THEN 0 ELSE Position + Len(Handed)
      BY <1>9, <2>3, <3>1, Sizes DEF Returns, Progress
    <3>3. QED
      BY <2>2, <3>2, Wraps DEF Device!Finish
  <2>4. CASE frame[p].op # "read"
    BY <1>9, <2>2, <2>4 DEF Returns, View, CallFits, Progress, Frames
  <2>5. QED
    BY <2>3, <2>4
<1>10. QED
  BY <1>2, <1>3, <1>4, <1>5, <1>6, <1>7, <1>8, <1>9, OwnerEffects

LEMMA RefInvariance == Spec => []RefInv
<1>1. Init => CallsOK /\ SoleOK
  BY NoFrameFields DEF Init, CallsOK, CallFits, SoleOK
<1>2. (CallsOK /\ SoleOK) /\ Inv /\ [Next]_vars => (CallsOK /\ SoleOK)'
  BY NextKeepsCalls, NextKeepsSole DEF RefInv, Inv
<1>3. RefInv <=> Inv /\ (CallsOK /\ SoleOK)
  BY DEF RefInv
<1>4. QED
  BY <1>1, <1>2, <1>3, Invariance, PTL DEF Spec

(* The device implements MessageDevice for the process that has it to      *)
(* itself, whatever the sizes of the buffer and of its reads and writes:   *)
(* it reads one message in order and without gaps, and its writes happen   *)
(* at once or not at all.                                                  *)
THEOREM OwnerSeesOneDevice == Spec => OneUserDevice
<1>1. Init => Device!Init
  <2>1. SUFFICES ASSUME Init PROVE Device!Init
    OBVIOUS
  <2>2. \A p \in Processes : frame[p].op # "read"
    BY <2>1, NoFrameFields DEF Init
  <2>3. QED
    BY <2>1, <2>2 DEF Init, Device!Init, Handed
<1>2. RefInv /\ RefInv' /\ [Next]_vars => [Device!Next]_Device!vars
  <2>1. SUFFICES ASSUME RefInv, RefInv', [Next]_vars PROVE [Device!Next]_Device!vars
    OBVIOUS
  <2>2. CASE ~(alone /\ alone')
    <3>1. alone' \in BOOLEAN
      BY <2>1, Zenon DEF RefInv, Inv, TypeInv, TypeOK
    <3>2. QED
      BY <2>2, <3>1 DEF Device!Next
  <2>3. CASE alone /\ alone'
    <3>1. PICK p \in Processes, f \in Files : module = "ready" /\ Owns(p, f) /\ Progress(p, f)
      BY <2>1, <2>3 DEF RefInv, SoleOK
    <3>2. UNCHANGED <<fds, module>> /\ (Quiet(p) \/ OwnerActs(p, f))
      BY <2>1, <2>3, <3>1, SoleSteps
    <3>3. CallsOK /\ CallsOK' /\ Owns(p, f)'
      BY <2>1, <3>1, <3>2 DEF RefInv, Owns
    <3>4. OwnersView /\ OwnersView'
      BY ViewHolds, PTL
    <3>5. View(p, f) /\ View(p, f)'
      BY <3>1, <3>3, <3>4 DEF OwnersView
    <3>6. OwnerFacts(p, f)
      BY <2>1, <3>1, OwnerKnown
    <3>7. CallFits(pc[p], frame[p], {f})'
      BY <3>3 DEF CallsOK, Owns, CallFits
    <3>8. QED
      BY <2>1, <2>3, <3>1, <3>2, <3>5, <3>6, <3>7, OwnerRefines
  <2>4. QED
    BY <2>2, <2>3
<1>3. QED
  BY <1>1, <1>2, RefInvariance, PTL DEF Spec, OneUserDevice, Device!Spec
=============================================================================
