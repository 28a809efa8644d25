----------------------------- MODULE DeviceCache ----------------------------
(***************************************************************************)
(* The dump of a device beside its file (Database::readDevice of           *)
(* src/src/db/database.cpp).  A run that finds all six files of the dump   *)
(* loads them, six threads at a time, and never opens the device file; any *)
(* other run reads the device and writes the six files by six threads.     *)
(* A run may be ended between any two steps and another one started; the   *)
(* files that it was writing are left as they are.                         *)
(*                                                                         *)
(* The threads that load a dump touch neither the disk nor the target of   *)
(* another one: loading is one step.  Two runs at a time in one directory  *)
(* are not modelled.                                                       *)
(***************************************************************************)
EXTENDS Integers, Sequences, FiniteSets

CONSTANTS
  DeviceNodes, \* DeviceNodes[d]: the number of nodes of the device d
  Setups       \* the runs to come, and what is on the disk before them

NodeParts == <<"node_to_wires0", "node_to_wires1", "node_to_wires2", "node_to_wires3">>
Dump == {NodeParts[i] : i \in 1..4} \cup {"device", "routeNodes"}

VARIABLES
  disk,        \* disk[f]: file f of the dump, [state, content]
  plan,        \* the devices that the coming runs are asked for
  asked,       \* history: the devices that were asked for in this directory
  phase,       \* "off", "load", "read", "dump", "ready" or "terminated"
  deviceName,  \* the device that this run is asked for
  memory,      \* [device, node_to_wires, routeNodes], what was read or loaded
  toOpen, toClose  \* the files that the threads have yet to open and to close

memoryVars == <<deviceName, memory>>
cacheVars == <<disk, plan, asked, phase, memoryVars, toOpen, toClose>>

\* Node n of the device d stands for its wires and for its RouteNode.
NodesOfDevice(d) == [n \in 1..DeviceNodes[d] |-> <<d, n>>]
ReadMemory(d) == [device |-> d, node_to_wires |-> NodesOfDevice(d), routeNodes |-> NodesOfDevice(d)]
NoDevice == 0
NoMemory == [device |-> NoDevice, node_to_wires |-> <<>>, routeNodes |-> <<>>]

\* Slips: a part lacks its last node when the parts are of unequal size, or
\* one file is enough to take the dump for complete.
PartOfEqual(i, s) == SubSeq(s, (i - 1) * (Len(s) \div 4) + 1, i * (Len(s) \div 4))
AnyFile(d) == \E f \in Dump : d[f].state # "absent"

Part(i, s) == SubSeq(s, ((i - 1) * Len(s)) \div 4 + 1, (i * Len(s)) \div 4)
isFileExists_stat(d) == \A f \in Dump : d[f].state # "absent"

Whole(s) == [state |-> "whole", content |-> s]
Absent == [state |-> "absent", content |-> <<>>]
Partial == [state |-> "partial", content |-> <<>>]
Written(f, m) ==
  CASE f = "device" -> Whole(<<m.device>>)
    [] f = "routeNodes" -> Whole(m.routeNodes)
    [] OTHER -> Whole(Part(CHOOSE i \in 1..4 : NodeParts[i] = f, m.node_to_wires))

\* What may be in the files of a directory in which the devices ds were asked
\* for: nothing, or what a run for one of them has written, whole or broken off.
DumpsOf(disks, ds) ==
  /\ DOMAIN disks = Dump
  /\ \A f \in Dump : disks[f] \in {Absent, Partial} \cup {Written(f, ReadMemory(d)) : d \in ds}

ASSUME SetupsAssumption ==
  /\ \A d \in DOMAIN DeviceNodes : DeviceNodes[d] \in Nat
  /\ \A s \in Setups : /\ s.plan \in Seq(DOMAIN DeviceNodes)
                       /\ s.asked \subseteq DOMAIN DeviceNodes
                       /\ DumpsOf(s.disk, s.asked)

CacheInit ==
  /\ \E s \in Setups : plan = s.plan /\ disk = s.disk /\ asked = s.asked
  /\ phase = "off" /\ deviceName = NoDevice /\ memory = NoMemory
  /\ toOpen = {} /\ toClose = {}

Start ==
  /\ phase \in {"off", "terminated"} /\ plan # <<>>
  /\ deviceName' = Head(plan) /\ plan' = Tail(plan) /\ asked' = asked \cup {Head(plan)}
  /\ phase' = IF isFileExists_stat(disk) THEN "load" ELSE "read"
  /\ UNCHANGED <<disk, memory, toOpen, toClose>>

\* Slip: the parts in another order.
LastPartFirst(d) == d[NodeParts[4]].content \o d[NodeParts[1]].content
                    \o d[NodeParts[2]].content \o d[NodeParts[3]].content

Concatenated(d) == d[NodeParts[1]].content \o d[NodeParts[2]].content
                   \o d[NodeParts[3]].content \o d[NodeParts[4]].content

\* An archive that breaks off ends the program, and so do wrong sizes.
Load ==
  /\ phase = "load"
  /\ IF \E f \in Dump : disk[f].state # "whole"
     THEN phase' = "terminated" /\ UNCHANGED memory
     ELSE /\ memory' = [device |-> disk["device"].content[1], node_to_wires |-> Concatenated(disk),
                        routeNodes |-> disk["routeNodes"].content]
          /\ phase' = IF {Len(memory'.node_to_wires), Len(memory'.routeNodes)} = {DeviceNodes[memory'.device]}
                      THEN "ready" ELSE "terminated"
  /\ UNCHANGED <<disk, plan, asked, deviceName, toOpen, toClose>>

ReadDevice ==
  /\ phase = "read"
  /\ memory' = ReadMemory(deviceName)
  /\ toOpen' = Dump /\ toClose' = {}
  /\ phase' = "dump"
  /\ UNCHANGED <<disk, plan, asked, deviceName>>

\* A thread opens its file, which empties it, and writes and closes it.
Open ==
  /\ phase = "dump"
  /\ \E f \in toOpen :
       /\ disk' = [disk EXCEPT ![f] = Partial]
       /\ toOpen' = toOpen \ {f} /\ toClose' = toClose \cup {f}
  /\ UNCHANGED <<plan, asked, phase, memoryVars>>

Close ==
  /\ phase = "dump"
  /\ \E f \in toClose :
       /\ disk' = [disk EXCEPT ![f] = Written(f, memory)]
       /\ toClose' = toClose \ {f}
  /\ UNCHANGED <<plan, asked, phase, memoryVars, toOpen>>

JoinDump ==
  /\ phase = "dump" /\ toOpen = {} /\ toClose = {}
  /\ phase' = "ready"
  /\ UNCHANGED <<disk, plan, asked, memoryVars, toOpen, toClose>>

\* The end of a run at any moment, by itself or not.
End ==
  /\ phase \in {"load", "read", "dump", "ready"} /\ plan # <<>>
  /\ phase' = "off" /\ deviceName' = NoDevice /\ memory' = NoMemory
  /\ toOpen' = {} /\ toClose' = {}
  /\ UNCHANGED <<disk, plan, asked>>

CacheStep == Load \/ ReadDevice \/ Open \/ Close \/ JoinDump
CacheNext == Start \/ CacheStep \/ End

-----------------------------------------------------------------------------

\* A directory in which only one device was asked for never serves anything
\* but that device, all nodes in their order, whatever runs were ended at
\* whatever step of a dump (database.cpp:21-26, 94-113).
ReadyIsOneDevice ==
  phase = "ready" /\ asked = {deviceName} => memory = ReadMemory(deviceName)

\* All files are there and one of them is broken off: every coming run will
\* load them and terminate, as no run deletes a file.
Poisoned == isFileExists_stat(disk) /\ \E f \in Dump : disk[f].state = "partial"

\* In a directory of one device a run gets ready, with or without a dump and
\* after dumps that were left incomplete, unless it is ended or the directory
\* is poisoned (database.cpp:21-113).
CacheServes ==
  phase \in {"load", "read"} /\ asked = {deviceName} /\ ~Poisoned
    ~> phase \in {"ready", "off"}

=============================================================================
