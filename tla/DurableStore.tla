---------------------------- MODULE DurableStore ----------------------------
(***************************************************************************)
(* The durable half of the NetForge server: Server::execute for SET and    *)
(* DEL, netforge::Wal and netforge::KvStore, with process crashes, power   *)
(* loss, failing writes and fsyncs, restarts and recovery.  The server is  *)
(* one with a write-ahead log configured; without one Wal does nothing.    *)
(*                                                                         *)
(* A file is the sequence of its frames.  A complete frame is a mutation;  *)
(* a frame cut short inside its length header or inside its body is a torn *)
(* entry.  file is what reads and writes see (the page cache), disk what   *)
(* the last fsync or power loss left on stable storage.                    *)
(***************************************************************************)
EXTENDS Integers, Sequences, FiniteSets

CONSTANTS
    Thread,     \* the worker threads that execute requests
    Key, Value,
    Absent,     \* no value: a DEL record, or a key that is not in the store
    NoKey,      \* a torn entry has no key
    FsyncLinks  \* whether fsync of a new file also makes its name durable

ASSUME StoreAssumption ==
    /\ Absent \notin Value /\ NoKey \notin Key
    /\ FsyncLinks \in BOOLEAN

VARIABLES
    file, disk,
    linked,     \* whether the file's directory entry is on stable storage
    fd,         \* whether Wal::fd_ is open
    phase,      \* the server process: down, recover, repair, up
    store,      \* KvStore::values_
    applied,    \* how many entries of the file this process is done with
    missed,     \* those of them whose change of the store threw an exception
    lock,       \* the thread that holds mutation_mutex_, as a set
    at,         \* where each thread is in execute
    request,    \* the mutation it executes
    acked       \* the mutations answered without an error, with their position

vars == <<file, disk, linked, fd, phase, store, applied, missed, lock, at, request, acked>>

Mutation == [kind : {"complete"}, key : Key, value : Value \cup {Absent}]
Torn == [kind : {"header", "body"}, key : {NoKey}, value : {Absent}]
NoRequest == [kind |-> "none", key |-> NoKey, value |-> Absent]
Empty == [k \in Key |-> Absent]

Init ==
    /\ file = <<>> /\ disk = <<>>
    /\ linked = FALSE
    /\ fd = FALSE
    /\ phase = "down"
    /\ store = Empty
    /\ applied = 0 /\ missed = {}
    /\ lock = {}
    /\ at = [t \in Thread |-> "idle"]
    /\ request = [t \in Thread |-> NoRequest]
    /\ acked = {}

Goto(t, label) == at' = [at EXCEPT ![t] = label]

-----------------------------------------------------------------------------
(* execute: SET and DEL *)

\* A handler appends and applies without mutation_mutex_.
BeginUnlocked(t, m) ==
    /\ phase = "up" /\ at[t] = "idle"
    /\ fd
    /\ lock' = lock \cup {t}
    /\ request' = [request EXCEPT ![t] = m]
    /\ Goto(t, "write")
    /\ UNCHANGED <<file, disk, linked, fd, phase, store, applied, missed, acked>>

\* scoped_lock on mutation_mutex_, and append_record finding fd_ open.  When an
\* earlier failure has closed it the answer is an error and nothing changes.
Begin(t, m) ==
    /\ phase = "up" /\ at[t] = "idle"
    /\ lock = {}
    /\ fd
    /\ lock' = {t}
    /\ request' = [request EXCEPT ![t] = m]
    /\ Goto(t, "write")
    /\ UNCHANGED <<file, disk, linked, fd, phase, store, applied, missed, acked>>

\* write_file_all has written a part of the frame.
WritePart(t) ==
    /\ at[t] = "write"
    /\ \E torn \in Torn : file' = Append(file, torn)
    /\ Goto(t, "writeMore")
    /\ UNCHANGED <<disk, linked, fd, phase, store, applied, missed, lock, request, acked>>

WriteAll(t) ==
    /\ \/ at[t] = "write" /\ file' = Append(file, request[t])
       \/ at[t] = "writeMore" /\ file' = [file EXCEPT ![Len(file)] = request[t]]
    /\ Goto(t, "sync")
    /\ UNCHANGED <<disk, linked, fd, phase, store, applied, missed, lock, request, acked>>

\* The request ends, with an answer or an exception; the mutex is released.
EndRequest(t) ==
    /\ lock' = lock \ {t}
    /\ request' = [request EXCEPT ![t] = NoRequest]
    /\ Goto(t, "idle")

\* write() or fsync() fails and the log stays open for the next append.
AppendFailKeepOpen(t) ==
    /\ at[t] \in {"write", "writeMore", "sync"}
    /\ EndRequest(t)
    /\ UNCHANGED <<file, disk, linked, fd, phase, store, applied, missed, acked>>

AppendFail(t) ==
    /\ at[t] \in {"write", "writeMore", "sync"}
    /\ fd' = FALSE
    /\ EndRequest(t)
    /\ UNCHANGED <<file, disk, linked, phase, store, applied, missed, acked>>

\* The text of the record or its frame cannot be built: nothing is written.
AppendThrows(t) ==
    /\ at[t] = "write"
    /\ EndRequest(t)
    /\ UNCHANGED <<file, disk, linked, fd, phase, store, applied, missed, acked>>

\* fsync of the log.  The directory that names it is never synced: whether the
\* name becomes durable is up to the file system.
Fsync ==
    /\ disk' = file
    /\ linked' = (linked \/ FsyncLinks)

\* The fsync is left out.
SyncSkipped(t) ==
    /\ at[t] = "sync"
    /\ Goto(t, "apply")
    /\ UNCHANGED <<file, disk, linked, fd, phase, store, applied, missed, lock, request, acked>>

Sync(t) ==
    /\ at[t] = "sync"
    /\ Fsync
    /\ Goto(t, "apply")
    /\ UNCHANGED <<file, fd, phase, store, applied, missed, lock, request, acked>>

\* KvStore::set or erase, and the answer; the mutex is released.  An answer that is
\* lost behind this point counts as given: acked is all that a client may know.
Apply(t) ==
    /\ at[t] = "apply"
    /\ store' = [store EXCEPT ![request[t].key] = request[t].value]
    /\ applied' = applied + 1
    /\ acked' = acked \cup {<<Len(file), request[t]>>}
    /\ EndRequest(t)
    /\ UNCHANGED <<file, disk, linked, fd, phase, missed>>

\* KvStore::set or erase throws for want of memory, behind the fsync of its
\* record: the mutex is released, the exception ends the connection's task in
\* worker_loop, nothing is answered, the store is as before and the log open.
ApplyThrows(t) ==
    /\ at[t] = "apply"
    /\ applied' = applied + 1
    /\ missed' = missed \cup {Len(file)}
    /\ EndRequest(t)
    /\ UNCHANGED <<file, disk, linked, fd, phase, store, acked>>

-----------------------------------------------------------------------------
(* Crashes *)

\* Memory is gone: locks, requests in progress and the store.
LoseMemory ==
    /\ phase' = "down"
    /\ fd' = FALSE
    /\ store' = Empty
    /\ applied' = 0 /\ missed' = {}
    /\ lock' = {}
    /\ at' = [t \in Thread |-> "idle"]
    /\ request' = [t \in Thread |-> NoRequest]

\* The process ends, in order or not, or its recovery fails; the operating
\* system keeps the file.
ProcessCrash ==
    /\ phase # "down"
    /\ LoseMemory
    /\ UNCHANGED <<file, disk, linked, acked>>

\* Where a power loss may cut the file: anywhere behind the entries that stable
\* storage has as they are.
Cuts ==
    {n \in 0 .. Len(file) :
        \A m \in (n + 1) .. Len(file) :
            m <= Len(disk) => SubSeq(disk, 1, m) # SubSeq(file, 1, m)}

\* What stable storage may hold after a power loss: what it held after the last
\* fsync, or the file as far as it was written back, the last entry torn or not.
Survivors ==
    {disk} \cup {SubSeq(file, 1, n) : n \in Cuts}
           \cup UNION {{Append(SubSeq(file, 1, n), torn) : torn \in Torn} : n \in Cuts \ {Len(file)}}

\* A file whose name was never written back is gone, and the next start makes a
\* new one.
PowerLoss ==
    /\ \/ file' \in Survivors /\ linked' = TRUE
       \/ ~linked /\ file' = <<>> /\ linked' = FALSE
    /\ disk' = file'
    /\ LoseMemory
    /\ UNCHANGED acked

-----------------------------------------------------------------------------
(* Start: Wal::Wal and Wal::recover *)

Start ==
    /\ phase = "down"
    /\ phase' = "recover"
    /\ fd' = TRUE
    /\ UNCHANGED <<file, disk, linked, store, applied, missed, lock, at, request, acked>>

RecoverRecord ==
    /\ phase = "recover" /\ applied < Len(file)
    /\ file[applied + 1].kind = "complete"
    /\ store' = [store EXCEPT ![file[applied + 1].key] = file[applied + 1].value]
    /\ applied' = applied + 1
    /\ UNCHANGED <<file, disk, linked, fd, phase, missed, lock, at, request, acked>>

\* End of file at a frame boundary.
RecoverEnd ==
    /\ phase = "recover" /\ applied = Len(file)
    /\ phase' = "up"
    /\ UNCHANGED <<file, disk, linked, fd, store, applied, missed, lock, at, request, acked>>

\* The tail is cut one frame too early.
RecoverTornShort ==
    /\ phase = "recover" /\ applied \in 1 .. (Len(file) - 1)
    /\ file[applied + 1].kind # "complete"
    /\ file' = SubSeq(file, 1, applied - 1)
    /\ applied' = applied - 1
    /\ phase' = "repair"
    /\ UNCHANGED <<disk, linked, fd, store, missed, lock, at, request, acked>>

\* The torn tail is ignored and stays in the file.
RecoverTornIgnored ==
    /\ phase = "recover" /\ applied < Len(file)
    /\ file[applied + 1].kind # "complete"
    /\ phase' = "repair"
    /\ UNCHANGED <<file, disk, linked, fd, store, applied, missed, lock, at, request, acked>>

\* End of file inside a header or inside a body: ftruncate to the last complete
\* frame.
RecoverTorn ==
    /\ phase = "recover" /\ applied < Len(file)
    /\ file[applied + 1].kind # "complete"
    /\ file' = SubSeq(file, 1, applied)
    /\ phase' = "repair"
    /\ UNCHANGED <<disk, linked, fd, store, applied, missed, lock, at, request, acked>>

RepairSync ==
    /\ phase = "repair"
    /\ Fsync
    /\ phase' = "up"
    /\ UNCHANGED <<file, fd, store, applied, missed, lock, at, request, acked>>

Next ==
    \/ \E t \in Thread :
         \/ \E m \in Mutation : Begin(t, m)
         \/ AppendThrows(t) \/ WritePart(t) \/ WriteAll(t) \/ AppendFail(t)
         \/ Sync(t) \/ Apply(t) \/ ApplyThrows(t)
    \/ ProcessCrash \/ PowerLoss
    \/ Start \/ RecoverRecord \/ RecoverEnd \/ RecoverTorn \/ RepairSync

Spec == Init /\ [][Next]_vars

-----------------------------------------------------------------------------
Entry == Mutation \cup Torn

\* Types.  A thread is inside execute exactly when it holds the mutex, which
\* one thread holds at a time, and then it has a mutation in hand.
TypeOK ==
    /\ file \in Seq(Entry) /\ disk \in Seq(Entry)
    /\ linked \in BOOLEAN /\ fd \in BOOLEAN
    /\ phase \in {"down", "recover", "repair", "up"}
    /\ store \in [Key -> Value \cup {Absent}]
    /\ applied \in 0 .. Len(file) /\ missed \subseteq 1 .. applied
    /\ at \in [Thread -> {"idle", "write", "writeMore", "sync", "apply"}]
    /\ request \in [Thread -> Mutation \cup {NoRequest}]
    /\ acked \subseteq (Nat \ {0}) \X Mutation
    /\ lock = {t \in Thread : at[t] # "idle"}
    /\ \A t \in lock : lock = {t} /\ request[t] \in Mutation /\ phase = "up"

\* The entries of the file that this process has in memory.
InMemory == (1 .. applied) \ missed

\* A mutation answered without an error is on stable storage, in its place in
\* the log, from then on, whatever crashes and recoveries follow; and a server
\* that is up has it in memory.
AckedDurable ==
    \A a \in acked :
        /\ a[1] \in DOMAIN disk /\ disk[a[1]] = a[2]
        /\ a[1] \in DOMAIN file /\ file[a[1]] = a[2]
        /\ phase = "up" => a[1] \in InMemory

\* The store s holds, for each key, the value of its last record among the
\* entries of the file f at the positions N.
Reflects(s, f, N) ==
    \A k \in Key :
        \/ s[k] = Absent /\ \A i \in N : f[i].key # k
        \/ \E i \in N :
             /\ f[i].key = k /\ f[i].value = s[k]
             /\ \A j \in N : j > i => f[j].key # k

\* Memory is the log replayed, without the records whose change of the store
\* threw: concurrent handlers change the store in the order in which they append,
\* and recovery rebuilds the same store, those records included.
StoreReflectsLog == Reflects(store, file, InMemory)

\* No record is ever written behind a torn one, so recovery, which stops at the
\* first torn entry, never cuts off a later record.
TornTailIsLast == \A i \in DOMAIN file : file[i] \in Torn => i = Len(file)

\* A record of the log that a server which is up does not have in memory was never
\* answered.  Either its change of the store threw, and then it is on stable
\* storage with all before it, so that the next start brings it; or it is the
\* last of the log, and its handler is still at work or has closed the log.
UnappliedUnanswered ==
    phase = "up" =>
        \A i \in DOMAIN file \ InMemory :
            /\ \A a \in acked : a[1] # i
            /\ \/ i \in missed /\ i \in DOMAIN disk /\ SubSeq(disk, 1, i) = SubSeq(file, 1, i)
               \/ i = Len(file) /\ (lock # {} \/ ~fd)

\* A step keeps what the file and stable storage have in common, complete
\* records that is.
KeepsDurable ==
    \A i \in DOMAIN file \cap DOMAIN disk :
        file[i] \in Mutation /\ SubSeq(file, 1, i) = SubSeq(disk, 1, i) =>
            /\ i \in DOMAIN file' /\ file'[i] = file[i]
            /\ i \in DOMAIN disk' /\ disk'[i] = file[i]

\* A record that has reached stable storage stays in the log for good, the one
\* whose request was answered with an error or never answered included: neither
\* the repair of a torn tail nor a crash takes it away or changes it.
DurableRecordsStay == [][KeepsDurable]_vars
=============================================================================
