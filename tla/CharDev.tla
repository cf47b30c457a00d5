------------------------------- MODULE CharDev -------------------------------
(***************************************************************************)
(* os_ex6_new/src/chardev.c: a kernel module whose device keeps a message  *)
(* of BUF_LEN characters, and the processes that use it (test.c is one).   *)
(*                                                                         *)
(* The kernel calls the handlers on behalf of the processes, and does not  *)
(* exclude one from another.  It gives device_read and device_write a copy *)
(* of the open file's position, which it stores back when they return      *)
(* (Linux 3.2, for which the module was built; also on an error).          *)
(*                                                                         *)
(* A character is the number of the write that brought it: characters of   *)
(* one write need not be told apart.  Not modelled: a second load of the   *)
(* module, pread() and pwrite(), priorities and interrupts.                *)
(*                                                                         *)
(* A process is  "idle"          in none of its calls                      *)
(*               "open"          waiting for the spinlock in device_open   *)
(*               "open_test"     it holds it, and looks at dev_open_flag   *)
(*               "open_inc"      the flag was 0                            *)
(*               "release"       waiting for it in device_release          *)
(*               "release_dec"   it holds it                               *)
(*               "read"          in the loop of device_read                *)
(*               "write"         in the second loop of device_write        *)
(*               "return"        about to store the position back          *)
(***************************************************************************)
EXTENDS Integers, Sequences, FiniteSets

CONSTANTS
    Processes, NoProcess,
    BufLen,         (* BUF_LEN: 80 in the code                              *)
    InitialLen,     (* BUF_INITIAL_LEN: 9 in the code                       *)
    TopOfMemory,    (* the addresses there are from Message on              *)
    ReadLengths, WriteLengths,      (* the lengths asked for                *)
    Rooms,          (* how many characters a reader's buffer takes          *)
    MaxOpens,       (* bound: calls of open()                               *)
    MaxCalls        (* bound: calls of read() and write()                   *)

ASSUME DeviceAssumption ==
    /\ IsFiniteSet(Processes) /\ NoProcess \notin Processes
    /\ InitialLen \in Nat /\ BufLen \in Nat /\ InitialLen < BufLen
    /\ TopOfMemory \in Nat /\ BufLen < TopOfMemory
    /\ ReadLengths \subseteq Nat /\ WriteLengths \subseteq Nat /\ Rooms \subseteq Nat
    /\ MaxOpens \in Nat /\ MaxCalls \in Nat

VARIABLES
    module,         (* "loading", "registered", "ready", "failed" or "gone" *)
    copied,         (* characters of BUF_INITIAL in Message already         *)
    Message, last_written, dev_open_flag,
    lock,           (* device_info.lock: its holder, or NoProcess           *)
    opens, calls,   (* opens and reads or writes so far                     *)
    fds,            (* fds[p]: the files process p has open                 *)
    offset,         (* offset[f]: the position of file f                    *)
    pc,             (* where a process is                                   *)
    frame,          (* and the arguments and locals of its call             *)
    alone           (* auxiliary: a file is open, the device was quite      *)
                    (* ready by then, and no process has inherited it       *)

memory == <<Message, last_written>>
loading == <<module, copied>>
opening == <<dev_open_flag, lock, opens, fds, alone>>
vars == <<loading, memory, opening, calls, offset, pc, frame>>

Files == 1..MaxOpens
Nul == 0
Initial == -1
Characters == {Nul, Initial} \cup 1..MaxCalls

(* at: in device_read p - Message, to which *offset is kept equal, in      *)
(* device_write i; end: endRead, num_bytes_wrote; room: how many           *)
(* characters the user's buffer takes before put_user() fails; got: the    *)
(* characters given to the user.                                           *)
Frames ==
    [op : {"none", "read", "write"}, file : Files \cup {0}, at : 0..BufLen,
     end : 0..BufLen, room : Nat, text : 0..MaxCalls, got : Seq(Characters)]

NoFrame ==
    [op |-> "none", file |-> 0, at |-> 0, end |-> 0, room |-> 0, text |-> 0,
     got |-> <<>>]

(* Types; that a position lies in the buffer, so that a read starts there, *)
(* and that the message is terminated, are among them.                     *)
TypeOK ==
    /\ module \in {"loading", "registered", "ready", "failed", "gone"}
    /\ copied \in 0..InitialLen + 1
    /\ Message \in [0..BufLen - 1 -> Characters]
    /\ Message[BufLen - 1] = Nul
    /\ last_written \in 0..BufLen
    /\ dev_open_flag \in Int
    /\ lock \in Processes \cup {NoProcess}
    /\ opens \in 0..MaxOpens /\ calls \in 0..MaxCalls
    /\ fds \in [Processes -> SUBSET Files]
    /\ offset \in [Files -> 0..BufLen - 1]
    /\ pc \in [Processes -> {"idle", "open", "open_test", "open_inc", "release",
                             "release_dec", "read", "write", "return"}]
    /\ frame \in [Processes -> Frames]
    /\ alone \in BOOLEAN

Init ==
    /\ module = "loading" /\ copied = 0
    /\ Message = [i \in 0..BufLen - 1 |-> Nul]
    /\ last_written = BufLen
    /\ dev_open_flag = 0 /\ lock = NoProcess
    /\ opens = 0 /\ calls = 0
    /\ fds = [p \in Processes |-> {}]
    /\ offset = [f \in Files |-> 0]
    /\ pc = [p \in Processes |-> "idle"]
    /\ frame = [p \in Processes |-> NoFrame]
    /\ alone = FALSE

OpenFiles == UNION {fds[p] : p \in Processes}
Loaded == module \in {"registered", "ready"}

-----------------------------------------------------------------------------
(* simple_init and simple_cleanup *)

Register ==
    /\ module = "loading"
    /\ module' \in {"registered", "failed"}
    /\ UNCHANGED <<copied, memory, opening, calls, offset, pc, frame>>

(* strcpy() of BUF_INITIAL, which the device does not wait for. *)
CopyInitial ==
    /\ module = "registered"
    /\ Message' = [Message EXCEPT ![copied] = IF copied < InitialLen THEN Initial ELSE Nul]
    /\ copied' = copied + 1
    /\ module' = IF copied = InitialLen THEN "ready" ELSE module
    /\ UNCHANGED <<last_written, opening, calls, offset, pc, frame>>

(* The file operations have no owner: open files do not prevent it.  The   *)
(* memory of the module is given back; what becomes of a process that is   *)
(* still in a handler, or calls one, nobody can say, and none is followed  *)
(* any further.                                                            *)
Unload ==
    /\ module = "ready"
    /\ module' = "gone" /\ copied' = 0
    /\ Message' = [i \in 0..BufLen - 1 |-> Nul]
    /\ last_written' = BufLen
    /\ dev_open_flag' = 0 /\ lock' = NoProcess
    /\ opens' = 0 /\ calls' = 0
    /\ fds' = [p \in Processes |-> {}]
    /\ offset' = [f \in Files |-> 0]
    /\ pc' = [p \in Processes |-> "idle"]
    /\ frame' = [p \in Processes |-> NoFrame]
    /\ alone' = FALSE

-----------------------------------------------------------------------------
Goes(p, from, to) == pc[p] = from /\ pc' = [pc EXCEPT ![p] = to]

(* The call of p is over, and its locals are gone. *)
Ends(p, from) == Goes(p, from, "idle") /\ frame' = [frame EXCEPT ![p] = NoFrame]

-----------------------------------------------------------------------------
(* device_open and device_release *)

Open(p) ==
    /\ opens < MaxOpens
    /\ opens' = opens + 1
    /\ Goes(p, "idle", "open")
    /\ frame' = [frame EXCEPT ![p].file = opens + 1]
    /\ UNCHANGED <<loading, memory, dev_open_flag, lock, fds, alone, calls, offset>>

(* Mutant: a lock that several may take. *)
SpinLockAnyway(p) ==
    /\ lock' = p
    /\ Goes(p, "open", "open_test") \/ Goes(p, "release", "release_dec")
    /\ UNCHANGED <<loading, memory, dev_open_flag, opens, fds, alone, calls, offset, frame>>

SpinLock(p) ==
    /\ lock = NoProcess
    /\ lock' = p
    /\ Goes(p, "open", "open_test") \/ Goes(p, "release", "release_dec")
    /\ UNCHANGED <<loading, memory, dev_open_flag, opens, fds, alone, calls, offset, frame>>

(* -EBUSY *)
OpenBusy(p) ==
    /\ dev_open_flag # 0
    /\ Ends(p, "open_test")
    /\ lock' = NoProcess
    /\ UNCHANGED <<loading, memory, dev_open_flag, opens, fds, alone, calls, offset>>

OpenFree(p) ==
    /\ dev_open_flag = 0
    /\ Goes(p, "open_test", "open_inc")
    /\ UNCHANGED <<loading, memory, opening, calls, offset, frame>>

(* The flag is raised and the lock given back; the process has the file. *)
OpenTaken(p) ==
    /\ Ends(p, "open_inc")
    /\ dev_open_flag' = dev_open_flag + 1
    /\ lock' = NoProcess
    /\ fds' = [fds EXCEPT ![p] = @ \cup {frame[p].file}]
    /\ alone' = (module = "ready")
    /\ UNCHANGED <<loading, memory, opens, calls, offset>>

(* fork(): the child has the open files of its parent. *)
Fork(p, q) ==
    /\ pc[p] = "idle" /\ pc[q] = "idle"
    /\ fds[p] # {} /\ fds[q] = {}
    /\ fds' = [fds EXCEPT ![q] = fds[p]]
    /\ alone' = FALSE
    /\ UNCHANGED <<loading, memory, dev_open_flag, lock, opens, calls, offset, pc, frame>>

(* close(): the last one of a file releases the device. *)
Close(p, f) ==
    /\ pc[p] = "idle"
    /\ fds' = [fds EXCEPT ![p] = @ \ {f}]
    /\ IF \E q \in Processes \ {p} : f \in fds[q]
       THEN UNCHANGED <<pc, frame, alone>>
       ELSE /\ Goes(p, "idle", "release")
            /\ frame' = [frame EXCEPT ![p].file = f]
            /\ alone' = FALSE
    /\ UNCHANGED <<loading, memory, dev_open_flag, lock, opens, calls, offset>>

Release(p) ==
    /\ Ends(p, "release_dec")
    /\ dev_open_flag' = dev_open_flag - 1
    /\ lock' = NoProcess
    /\ UNCHANGED <<loading, memory, opens, fds, alone, calls, offset>>

-----------------------------------------------------------------------------
(* device_read and device_write *)

Smaller(a, b) == IF a < b THEN a ELSE b

(* endRead - Message, for p = Message + at.  When p + length passes the    *)
(* last address it comes out below p, and the loop does not run: 0.        *)
EndRead(at, length) ==
    IF at + length < TopOfMemory THEN Smaller(at + length, BufLen) ELSE 0

BeginCall(p, where, locals) ==
    /\ calls < MaxCalls
    /\ calls' = calls + 1
    /\ Goes(p, "idle", where)
    /\ frame' = [frame EXCEPT ![p] = locals]
    /\ UNCHANGED <<loading, opening, memory, offset>>

(* The user's buffer is NULL, or cannot be read far enough: -EFAULT, -EIO. *)
Refuse(p, f) ==
    BeginCall(p, "return", [NoFrame EXCEPT !.file = f, !.at = offset[f]])

(* `room' is how many characters the user's buffer takes. *)
Read(p, f, length, room) ==
    BeginCall(p, "read",
        [NoFrame EXCEPT !.op = "read", !.file = f, !.at = offset[f], !.room = room,
                        !.end = EndRead(offset[f], length)])

(* The characters come to TempBuffer first, at most BUF_LEN - 1 of them. *)
Write(p, f, length) ==
    BeginCall(p, "write",
        [NoFrame EXCEPT !.op = "write", !.file = f, !.text = calls + 1,
                        !.end = Smaller(length, BufLen - 1)])

Reading(p) == frame[p].at < frame[p].end /\ frame[p].at < last_written

ReadChar(p) ==
    /\ pc[p] = "read" /\ Reading(p) /\ Len(frame[p].got) < frame[p].room
    /\ frame' = [frame EXCEPT ![p].at = @ + 1,
                              ![p].got = Append(@, Message[frame[p].at])]
    /\ UNCHANGED <<loading, opening, memory, calls, offset, pc>>

(* put_user() fails; the characters before it stay read. *)
ReadFaults(p) ==
    /\ Goes(p, "read", "return")
    /\ Reading(p) /\ Len(frame[p].got) = frame[p].room
    /\ UNCHANGED <<loading, opening, memory, calls, offset, frame>>

(* Mutant: the position is not reset. *)
ReadEndsThere(p) ==
    /\ Goes(p, "read", "return")
    /\ ~Reading(p)
    /\ UNCHANGED <<loading, opening, memory, calls, offset, frame>>

ReadEnds(p) ==
    /\ Goes(p, "read", "return")
    /\ ~Reading(p)
    /\ frame' = [frame EXCEPT ![p].at = IF @ = BufLen THEN 0 ELSE @]
    /\ UNCHANGED <<loading, opening, memory, calls, offset>>

(* Message[i] = TempBuffer[i], and at last the terminating NUL. *)
WriteChar(p) ==
    /\ pc[p] = "write" /\ frame[p].at <= frame[p].end
    /\ Message' = [Message EXCEPT ![frame[p].at] =
                       IF frame[p].at < frame[p].end THEN frame[p].text ELSE Nul]
    /\ frame' = [frame EXCEPT ![p].at = @ + 1]
    /\ UNCHANGED <<loading, opening, last_written, calls, offset, pc>>

(* Mutant: last_written keeps the length of an earlier message. *)
WriteEndsShort(p) ==
    /\ Goes(p, "write", "return")
    /\ frame[p].at > frame[p].end
    /\ frame' = [frame EXCEPT ![p].at = 0]
    /\ UNCHANGED <<loading, opening, memory, calls, offset>>

WriteEnds(p) ==
    /\ Goes(p, "write", "return")
    /\ frame[p].at > frame[p].end
    /\ last_written' = frame[p].end
    /\ frame' = [frame EXCEPT ![p].at = 0]
    /\ UNCHANGED <<loading, opening, Message, calls, offset>>

(* The kernel stores the position back. *)
Return(p) ==
    /\ Ends(p, "return")
    /\ offset' = [offset EXCEPT ![frame[p].file] = frame[p].at]
    /\ UNCHANGED <<loading, opening, memory, calls>>

-----------------------------------------------------------------------------
Step(p) ==
    \/ SpinLock(p) \/ OpenBusy(p) \/ OpenFree(p) \/ OpenTaken(p) \/ Release(p)
    \/ ReadChar(p) \/ ReadFaults(p) \/ ReadEnds(p)
    \/ WriteChar(p) \/ WriteEnds(p) \/ Return(p)

(* What a process may do between its calls; test.c opens the device twice. *)
Call(p) ==
    \/ Open(p)
    \/ \E q \in Processes : Fork(p, q)
    \/ \E f \in fds[p] :
           \/ Close(p, f) \/ Refuse(p, f)
           \/ \E n \in WriteLengths : Write(p, f, n)
           \/ \E n \in ReadLengths, room \in Rooms : Read(p, f, n, room)

Next ==
    \/ Register \/ CopyInitial \/ Unload
    \/ Loaded /\ \E p \in Processes : Step(p) \/ Call(p)

Spec == Init /\ [][Next]_vars

-----------------------------------------------------------------------------
Releasing == {p \in Processes : pc[p] \in {"release", "release_dec"}}

(* "We don't want to talk to two processes at the same time": there is one *)
(* open file at most, and the flag says of each instant whether there is   *)
(* one, or one on its way to device_release: the device never stays busy.  *)
OpenCounted ==
    /\ Cardinality(OpenFiles) + Cardinality(Releasing) = dev_open_flag
    /\ dev_open_flag <= 1

(* The spinlock is held inside its two critical sections and nowhere else: *)
(* no path of device_open and device_release keeps it or returns it twice. *)
SpinLockHeld ==
    \A p \in Processes :
        lock = p <=> pc[p] \in {"open_test", "open_inc", "release_dec"}

-----------------------------------------------------------------------------
(* The device as the one process that has it open sees it *)

Writers == {p \in Processes : frame[p].op = "write"}

Text ==
    IF \E p \in Writers : pc[p] = "write"
    THEN LET p == CHOOSE p \in Writers : pc[p] = "write"
         IN  [i \in 1..frame[p].end |-> frame[p].text]
    ELSE [i \in 1..last_written |-> Message[i - 1]]

Position ==
    IF OpenFiles = {} \/ Writers # {} THEN 0 ELSE offset[CHOOSE f \in OpenFiles : TRUE]

Handed ==
    IF \E p \in Processes : frame[p].op = "read"
    THEN frame[CHOOSE p \in Processes : frame[p].op = "read"].got
    ELSE <<>>

Device == INSTANCE MessageDevice
    WITH Capacity <- BufLen,
         text <- Text, position <- Position, handed <- Handed, sole <- alone

(* A process that has the device to itself, because device_open turns away *)
(* all others and no child inherits the file, reads one message in order   *)
(* and without gaps, and sees its writes happen at once or not at all.     *)
OneUserDevice == Device!Spec
=============================================================================
