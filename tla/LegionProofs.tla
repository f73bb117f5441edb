---------------------------- MODULE LegionProofs ----------------------------
(***************************************************************************)
(* The table of daemons, for any number of names, slots, children and log  *)
(* versions: what the commands and the two signal handlers, interleaved in *)
(* every way, keep true of the table, of the processes and of the logs.    *)
(***************************************************************************)
EXTENDS Legion, LeastElement

Entry == [name : Names, pid : {0} \cup Pids, using : BOOLEAN, status : Statuses]
Proc == [state : Alive \cup Dead \cup {"none"}, name : Names \cup {""}, sigkill : BOOLEAN]

TypeInv ==
    /\ list \in Seq(Entry) /\ Len(list) <= MaxSlots
    /\ most_recent_index \in 0 .. Len(list)
    /\ pc \in Points
    /\ i \in 0 .. Len(list)
    /\ d_stopped \in BOOLEAN
    /\ child \in {0} \cup Pids
    /\ hix \in 0 .. Len(list) + 1
    /\ ret \in Points
    /\ pending \in BOOLEAN /\ blocked \in BOOLEAN /\ old_mask \in BOOLEAN
    /\ alarm \in BOOLEAN
    /\ proc \in [Pids -> Proc]
    /\ reaped \subseteq Pids /\ \A p \in reaped : proc[p].state \in Dead
    /\ logs \in [Names -> [Versions -> {0} \cup Pids]]

(* Where the command stands, also while the SIGCHLD handler runs.          *)
Phase == IF pc = "chld" THEN ret ELSE pc

(* What the command's locals stand for, whatever the handlers did since    *)
(* they were set.                                                          *)
Control ==
    /\ ret \notin {"chld", "exited"}
    /\ pc # "chld" => ret = "prompt"
    /\ pc = "chld" => hix \in 1 .. Len(list) + 1
    /\ alarm => Phase \in {"armed", "suspend", "woken", "read", "gotByte"}
    /\ Phase \in {"term", "armed", "suspend", "woken", "rotate"} =>
         /\ i \in DOMAIN list /\ most_recent_index = i
         /\ list[i].using /\ list[i].status = "stopping"
    /\ Phase \in {"start", "forked"} =>
         i \in DOMAIN list /\ list[i].using /\ list[i].status = "starting"
    /\ Phase \in {"forked", "read", "gotByte"} =>
         child \in Pids /\ child \notin reaped /\ proc[child].state # "none"
    /\ Phase = "forked" => \A j \in DOMAIN list : list[j].pid # child
    /\ Phase \in {"read", "gotByte"} =>
         /\ i \in DOMAIN list /\ most_recent_index = i
         /\ list[i].using /\ list[i].pid = child
         /\ list[i].status \in {"starting", "stopping"}

(* A process belongs to one entry for good, and is not waited for while    *)
(* the entry is active or stopping.                                        *)
Table ==
    \A j \in DOMAIN list :
        /\ list[j].pid # 0 => proc[list[j].pid].state # "none"
        /\ \A k \in DOMAIN list : list[j].pid = list[k].pid /\ list[j].pid # 0 => j = k
        /\ list[j].status \in {"active", "stopping"} =>
             list[j].pid \in Pids /\ list[j].pid \notin reaped
        /\ list[j].status = "exited" =>
             list[j].pid \in Pids /\ proc[list[j].pid].state = "exited"
        /\ list[j].status = "crashed" =>
             list[j].pid \in Pids /\ proc[list[j].pid].state = "killed"

(* Children are numbered in the order of their creation; only the newest   *)
(* can be about to open its log.                                           *)
Children ==
    pc # "exited" =>
        /\ \A p \in Pids : proc[p].state # "none" => proc[p].name \in Names
        /\ \A p, q \in Pids : p <= q /\ proc[q].state # "none" => proc[p].state # "none"
        /\ \A p \in Pids : proc[p].state = "forked" =>
             /\ p = child /\ Phase \in {"forked", "read"}
             /\ \A q \in Pids : q > p => proc[q].state = "none"
        /\ \A n \in Names : \A v \in Versions : logs[n][v] # 0 =>
             proc[logs[n][v]].state \notin {"none", "forked"}

(* Without logrotate: a process that has not been waited for is the one of *)
(* an entry that says so.                                                  *)
OwnedBy(p, j) ==
    /\ list[j].using /\ list[j].status \in {"starting", "active", "stopping"}
    /\ p = IF j = i /\ Phase = "forked" THEN child ELSE list[j].pid

Accounted ==
    ~Rotates =>
      /\ ~d_stopped /\ Phase # "rotate"
      /\ \A j \in DOMAIN list :
           /\ list[j].status \in {"inactive", "exited", "crashed"} =>
                list[j].pid \in {0} \cup reaped
           /\ list[j].status # "inactive" => list[j].using
      /\ Phase \in {"start", "forked"} => list[i].pid \in {0} \cup reaped
      /\ \A p \in Pids \ reaped :
           proc[p].state # "none" => \E j \in DOMAIN list : OwnedBy(p, j)

IInv ==
    TypeInv /\ Control /\ Table /\ Children /\ NamesUnique /\ LogsOrdered /\ Accounted

-----------------------------------------------------------------------------
(* One field of one entry is assigned.                                     *)
LEMMA StatusAssigned ==
    ASSUME list \in Seq(Entry), NEW k \in DOMAIN list, NEW s \in Statuses,
           list' = [list EXCEPT ![k].status = s]
    PROVE  /\ list' \in Seq(Entry) /\ Len(list') = Len(list)
           /\ DOMAIN list' = DOMAIN list
           /\ \A j \in DOMAIN list :
                /\ list'[j].name = list[j].name /\ list'[j].pid = list[j].pid
                /\ list'[j].using = list[j].using
                /\ list'[j].status = IF j = k THEN s ELSE list[j].status
<1>1. list[k] \in Entry /\ DOMAIN list = 1 .. Len(list) /\ Len(list) \in Nat
  OBVIOUS
<1>2. /\ [list[k] EXCEPT !.status = s] \in Entry
      /\ [list[k] EXCEPT !.status = s].name = list[k].name
      /\ [list[k] EXCEPT !.status = s].pid = list[k].pid
      /\ [list[k] EXCEPT !.status = s].using = list[k].using
      /\ [list[k] EXCEPT !.status = s].status = s
  BY <1>1 DEF Entry
<1>3. list' = [list EXCEPT ![k] = [list[k] EXCEPT !.status = s]]
  OBVIOUS
<1> QED
  BY <1>1, <1>2, <1>3

(* What is left of the table's facts when one field is assigned.           *)
LEMMA PidAssigned ==
    ASSUME list \in Seq(Entry), NEW k \in DOMAIN list, NEW p \in Pids,
           list' = [list EXCEPT ![k].pid = p]
    PROVE  /\ list' \in Seq(Entry) /\ Len(list') = Len(list)
           /\ DOMAIN list' = DOMAIN list
           /\ \A j \in DOMAIN list :
                /\ list'[j].name = list[j].name /\ list'[j].status = list[j].status
                /\ list'[j].using = list[j].using
                /\ list'[j].pid = IF j = k THEN p ELSE list[j].pid
<1>1. list[k] \in Entry /\ DOMAIN list = 1 .. Len(list) /\ Len(list) \in Nat
  OBVIOUS
<1>2. /\ [list[k] EXCEPT !.pid = p] \in Entry
      /\ [list[k] EXCEPT !.pid = p].name = list[k].name
      /\ [list[k] EXCEPT !.pid = p].status = list[k].status
      /\ [list[k] EXCEPT !.pid = p].using = list[k].using
      /\ [list[k] EXCEPT !.pid = p].pid = p
  BY <1>1 DEF Entry
<1>3. list' = [list EXCEPT ![k] = [list[k] EXCEPT !.pid = p]]
  OBVIOUS
<1> QED
  BY <1>1, <1>2, <1>3

LEMMA UsingCleared ==
    ASSUME list \in Seq(Entry), NEW k \in DOMAIN list,
           list' = [list EXCEPT ![k].using = FALSE]
    PROVE  /\ list' \in Seq(Entry) /\ Len(list') = Len(list)
           /\ DOMAIN list' = DOMAIN list
           /\ \A j \in DOMAIN list :
                /\ list'[j].name = list[j].name /\ list'[j].status = list[j].status
                /\ list'[j].pid = list[j].pid
                /\ list'[j].using = IF j = k THEN FALSE ELSE list[j].using
<1>1. list[k] \in Entry /\ DOMAIN list = 1 .. Len(list) /\ Len(list) \in Nat
  OBVIOUS
<1>2. /\ [list[k] EXCEPT !.using = FALSE] \in Entry
      /\ [list[k] EXCEPT !.using = FALSE].name = list[k].name
      /\ [list[k] EXCEPT !.using = FALSE].status = list[k].status
      /\ [list[k] EXCEPT !.using = FALSE].pid = list[k].pid
      /\ [list[k] EXCEPT !.using = FALSE].using = FALSE
  BY <1>1 DEF Entry
<1>3. list' = [list EXCEPT ![k] = [list[k] EXCEPT !.using = FALSE]]
  OBVIOUS
<1> QED
  BY <1>1, <1>2, <1>3

(* One field of one process is assigned.                                   *)
LEMMA StateAssigned ==
    ASSUME proc \in [Pids -> Proc], NEW p \in Pids,
           NEW s \in Alive \cup Dead \cup {"none"}, NEW b \in BOOLEAN,
           proc' = [proc EXCEPT ![p].state = s, ![p].sigkill = b]
    PROVE  /\ proc' \in [Pids -> Proc]
           /\ \A q \in Pids : proc'[q].name = proc[q].name
           /\ \A q \in Pids : proc'[q].state = IF q = p THEN s ELSE proc[q].state
<1>1. /\ [[proc[p] EXCEPT !.state = s] EXCEPT !.sigkill = b] \in Proc
      /\ [[proc[p] EXCEPT !.state = s] EXCEPT !.sigkill = b].name = proc[p].name
      /\ [[proc[p] EXCEPT !.state = s] EXCEPT !.sigkill = b].state = s
  BY DEF Proc
<1>2. proc' = [proc EXCEPT ![p] = [[proc[p] EXCEPT !.state = s] EXCEPT !.sigkill = b]]
  OBVIOUS
<1> QED
  BY <1>1, <1>2

LEMMA StateOnlyAssigned ==
    ASSUME proc \in [Pids -> Proc], NEW p \in Pids,
           NEW s \in Alive \cup Dead \cup {"none"},
           proc' = [proc EXCEPT ![p].state = s]
    PROVE  /\ proc' \in [Pids -> Proc]
           /\ \A q \in Pids : proc'[q].name = proc[q].name
           /\ \A q \in Pids : proc'[q].state = IF q = p THEN s ELSE proc[q].state
<1>1. /\ [proc[p] EXCEPT !.state = s] \in Proc
      /\ [proc[p] EXCEPT !.state = s].name = proc[p].name
      /\ [proc[p] EXCEPT !.state = s].state = s
  BY DEF Proc
<1>2. proc' = [proc EXCEPT ![p] = [proc[p] EXCEPT !.state = s]]
  OBVIOUS
<1> QED
  BY <1>1, <1>2

LEMMA SigkillAssigned ==
    ASSUME proc \in [Pids -> Proc], NEW p \in Pids, NEW b \in BOOLEAN,
           proc' = [proc EXCEPT ![p].sigkill = b]
    PROVE  /\ proc' \in [Pids -> Proc]
           /\ \A q \in Pids : proc'[q].name = proc[q].name
           /\ \A q \in Pids : proc'[q].state = proc[q].state
<1>1. /\ [proc[p] EXCEPT !.sigkill = b] \in Proc
      /\ [proc[p] EXCEPT !.sigkill = b].name = proc[p].name
      /\ [proc[p] EXCEPT !.sigkill = b].state = proc[p].state
  BY DEF Proc
<1>2. proc' = [proc EXCEPT ![p] = [proc[p] EXCEPT !.sigkill = b]]
  OBVIOUS
<1> QED
  BY <1>1, <1>2

(* A rotation moves one version up by one place, or drops the oldest.      *)
Moved(f, g, k) ==
    /\ k \in Versions \ {0} /\ g[k] = f[k - 1] /\ g[k - 1] = 0
    /\ \A v \in Versions \ {k - 1, k} : g[v] = f[v]
Dropped(f, g) ==
    /\ g[LOG_VERSIONS - 1] = 0
    /\ \A v \in Versions \ {LOG_VERSIONS - 1} : g[v] = f[v]

(* logrotate moves one version up by one, or drops the last.               *)
LEMMA RotatedMoves ==
    ASSUME NEW f \in [Versions -> {0} \cup Pids]
    PROVE  /\ Rotated(f) \in [Versions -> {0} \cup Pids]
           /\ Dropped(f, Rotated(f)) \/ \E k \in Versions : Moved(f, Rotated(f), k)
<1> DEFINE free == {v \in Versions \ {0} : f[v] = 0}
           k == CHOOSE v \in free : \A w \in free : v <= w
<1>1. CASE free = {}
  <2>1. Rotated(f) = [f EXCEPT ![LOG_VERSIONS - 1] = 0]
    BY <1>1 DEF Rotated
  <2> QED
    BY <2>1, LegionAssumption DEF Versions, Dropped
<1>2. CASE free # {}
  <2>1. free \in SUBSET Nat
    BY LegionAssumption DEF Versions
  <2>2. \E v \in free : \A w \in free : v <= w
    <3> HIDE DEF free
    <3> QED
      BY <1>2, <2>1, Least
  <2>3. k \in free
    <3> HIDE DEF free
    <3> QED
      BY <2>2
  <2>4. Rotated(f) = [[f EXCEPT ![k] = f[k - 1]] EXCEPT ![k - 1] = 0]
    BY <1>2 DEF Rotated
  <2> HIDE DEF k
  <2>5. k \in Versions \ {0} /\ k - 1 \in Versions /\ k - 1 # k
    BY <2>3, LegionAssumption DEF Versions
  <2> HIDE DEF free
  <2>6. Rotated(f) \in [Versions -> {0} \cup Pids] /\ Moved(f, Rotated(f), k)
    BY <2>4, <2>5 DEF Moved
  <2> QED
    BY <2>5, <2>6
<1> QED
  BY <1>1, <1>2

-----------------------------------------------------------------------------
(* One lemma per command, signal, handler step and step of a child.        *)
LEMMA RegisterInv ==
    ASSUME IInv, NEW n \in Names, Register(n)
    PROVE  IInv'
<1> USE DEF IInv
<1> DEFINE e == [name |-> n, pid |-> 0, using |-> TRUE, status |-> "inactive"]
<1>1. /\ pc = "prompt" /\ Slots(n) = {} /\ Len(list) < MaxSlots
      /\ list' = Append(list, e)
      /\ UNCHANGED <<most_recent_index, cliVars, hdlVars, sigVars, procVars, logs>>
  BY DEF Register, At
<1>2. e \in Entry /\ e.pid = 0 /\ e.using /\ e.name = n /\ e.status = "inactive"
  BY DEF Entry, Statuses
<1> HIDE DEF e
<1>3. /\ list' \in Seq(Entry) /\ Len(list') = Len(list) + 1
      /\ \A j \in DOMAIN list : j \in DOMAIN list' /\ list'[j] = list[j]
      /\ \A j \in DOMAIN list' : j \in DOMAIN list \/ j = Len(list) + 1
      /\ list'[Len(list) + 1] = e
  BY <1>1, <1>2 DEF TypeInv
<1>4. TypeInv'
  BY <1>1, <1>3, LegionAssumption DEF TypeInv, cliVars, hdlVars, sigVars, procVars
<1>5. Control'
  BY <1>1 DEF Control, Phase, cliVars, hdlVars, sigVars
<1>6. Table'
  <2>1. \A j \in DOMAIN list' : list'[j].pid # 0 => j \in DOMAIN list
    BY <1>2, <1>3
  <2>2. \A j \in DOMAIN list' : list'[j].status # "inactive" => j \in DOMAIN list
    BY <1>2, <1>3
  <2> QED
    BY <1>1, <1>2, <1>3, <2>1, <2>2 DEF Table, procVars
<1>7. Children'
  BY <1>1 DEF Children, Phase, cliVars, hdlVars, procVars
<1>8. NamesUnique'
  <2>1. \A j \in DOMAIN list : ~(list[j].using /\ list[j].name = n)
    BY <1>1 DEF Slots
  <2> QED
    BY <1>2, <1>3, <2>1 DEF NamesUnique
<1>9. LogsOrdered'
  BY <1>1 DEF LogsOrdered
<1>z. Accounted'
  BY <1>1, <1>2, <1>3 DEF Accounted, OwnedBy, Phase, Control, Pids, tabVars, cliVars, hdlVars, sigVars, procVars
<1> QED
  BY <1>z, <1>4, <1>5, <1>6, <1>7, <1>8, <1>9

LEMMA UnregisterInv ==
    ASSUME IInv, NEW n \in Names, Unregister(n)
    PROVE  IInv'
<1> USE DEF IInv
<1>1. PICK k \in DOMAIN list :
        /\ list[k].status = "inactive"
        /\ list' = [list EXCEPT ![k].using = FALSE]
  BY DEF Unregister
<1>2. /\ pc = "prompt"
      /\ UNCHANGED <<most_recent_index, cliVars, hdlVars, sigVars, procVars, logs>>
  BY DEF Unregister, At
<1>3. /\ list' \in Seq(Entry) /\ Len(list') = Len(list)
      /\ DOMAIN list' = DOMAIN list
      /\ \A j \in DOMAIN list :
           /\ list'[j].name = list[j].name /\ list'[j].status = list[j].status
           /\ list'[j].pid = list[j].pid
           /\ list'[j].using = IF j = k THEN FALSE ELSE list[j].using
  BY <1>1, UsingCleared DEF TypeInv
<1>4. TypeInv'
  BY <1>2, <1>3, LegionAssumption DEF TypeInv, cliVars, hdlVars, sigVars, procVars
<1>5. Control'
  BY <1>2 DEF Control, Phase, cliVars, hdlVars, sigVars
<1>6. Table'
  BY ZenonT(40), <1>2, <1>3 DEF Table, procVars
<1>7. Children'
  BY <1>2 DEF Children, Phase, cliVars, hdlVars, procVars
<1>8. NamesUnique'
  BY <1>3 DEF NamesUnique
<1>9. LogsOrdered'
  BY <1>2 DEF LogsOrdered
<1>z. Accounted'
  BY <1>1, <1>2, <1>3 DEF Accounted, OwnedBy, Phase, Control, Pids, tabVars, cliVars, hdlVars, sigVars, procVars
<1> QED
  BY <1>z, <1>4, <1>5, <1>6, <1>7, <1>8, <1>9

LEMMA ResetInv ==
    ASSUME IInv, NEW n \in Names, Reset(n)
    PROVE  IInv'
<1> USE DEF IInv
<1>1. PICK k \in DOMAIN list :
        /\ list[k].status \in {"exited", "crashed"}
        /\ list' = [list EXCEPT ![k].status = "inactive"]
  BY DEF Reset, SetStatus
<1>2. /\ pc = "prompt"
      /\ UNCHANGED <<most_recent_index, cliVars, hdlVars, sigVars, procVars, logs>>
  BY DEF Reset, At
<1>3. /\ list' \in Seq(Entry) /\ Len(list') = Len(list)
      /\ DOMAIN list' = DOMAIN list
      /\ \A j \in DOMAIN list :
           /\ list'[j].name = list[j].name /\ list'[j].pid = list[j].pid
           /\ list'[j].using = list[j].using
           /\ list'[j].status = IF j = k THEN "inactive" ELSE list[j].status
  BY <1>1, StatusAssigned DEF TypeInv, Statuses
<1>4. TypeInv'
  BY <1>2, <1>3, LegionAssumption DEF TypeInv, cliVars, hdlVars, sigVars, procVars
<1>5. Control'
  BY <1>2 DEF Control, Phase, cliVars, hdlVars, sigVars
<1>6. Table'
  BY <1>2, <1>3 DEF Table, procVars
<1>7. Children'
  BY <1>2 DEF Children, Phase, cliVars, hdlVars, procVars
<1>8. NamesUnique'
  BY <1>3 DEF NamesUnique
<1>9. LogsOrdered'
  BY <1>2 DEF LogsOrdered
<1>z. Accounted'
  BY <1>1, <1>2, <1>3 DEF Accounted, OwnedBy, Phase, Control, Pids, tabVars, cliVars, hdlVars, sigVars, procVars
<1> QED
  BY <1>z, <1>4, <1>5, <1>6, <1>7, <1>8, <1>9

LEMMA BeginStopInv ==
    ASSUME IInv, NEW n \in Names, NEW rotating \in BOOLEAN, ~Rotates => ~rotating, BeginStop(n, rotating)
    PROVE  IInv'
<1> USE DEF IInv
<1>1. PICK k \in DOMAIN list :
        /\ k \in Slots(n) /\ list[k].status = "active"
        /\ list' = [list EXCEPT ![k].status = "stopping"]
        /\ most_recent_index' = k /\ i' = k
  BY DEF BeginStop, SetStatus, Found
<1>2. /\ pc = "prompt" /\ pc' = "term" /\ d_stopped' = rotating
      /\ UNCHANGED <<child, hdlVars, sigVars, procVars, logs>>
  BY DEF BeginStop, At
<1>3. /\ list' \in Seq(Entry) /\ Len(list') = Len(list)
      /\ DOMAIN list' = DOMAIN list
      /\ \A j \in DOMAIN list :
           /\ list'[j].name = list[j].name /\ list'[j].pid = list[j].pid
           /\ list'[j].using = list[j].using
           /\ list'[j].status = IF j = k THEN "stopping" ELSE list[j].status
  BY <1>1, StatusAssigned DEF TypeInv, Statuses
<1>4. TypeInv'
  BY <1>1, <1>2, <1>3, LegionAssumption DEF TypeInv, hdlVars, sigVars, procVars, Points
<1>5. Control'
  BY <1>1, <1>2, <1>3 DEF Control, Phase, Slots, hdlVars, sigVars
<1>6. Table'
  BY <1>1, <1>2, <1>3 DEF Table, procVars
<1>7. Children'
  BY <1>2 DEF Children, Phase, hdlVars, procVars
<1>8. NamesUnique'
  BY <1>3 DEF NamesUnique
<1>9. LogsOrdered'
  BY <1>2 DEF LogsOrdered
<1>z. Accounted'
  BY <1>1, <1>2, <1>3 DEF Accounted, OwnedBy, Phase, Slots, Pids, tabVars, cliVars, hdlVars, sigVars, procVars
<1> QED
  BY <1>z, <1>4, <1>5, <1>6, <1>7, <1>8, <1>9

LEMMA SendTermInv ==
    ASSUME IInv, SendTerm
    PROVE  IInv'
<1> USE DEF IInv
<1>2. /\ pc = "term" /\ pc' = "armed"
      /\ old_mask' = blocked /\ blocked' = TRUE /\ alarm' = TRUE
      /\ UNCHANGED <<tabVars, i, d_stopped, child, hdlVars, pending, procVars, logs>>
  BY DEF SendTerm, At
<1>4. TypeInv'
  BY <1>2, LegionAssumption DEF TypeInv, Points, tabVars, hdlVars, sigVars, procVars, cliVars
<1>5. Control'
  BY <1>2 DEF Control, Phase, tabVars, hdlVars, sigVars, procVars, cliVars
<1>6. Table'
  BY <1>2 DEF Table, tabVars, procVars
<1>7. Children'
  BY <1>2 DEF Children, Phase, hdlVars, procVars, cliVars
<1>8. NamesUnique'
  BY <1>2 DEF NamesUnique, tabVars
<1>9. LogsOrdered'
  BY <1>2 DEF LogsOrdered
<1>z. Accounted'
  BY <1>2 DEF Accounted, OwnedBy, Phase, Control, Pids, tabVars, cliVars, hdlVars, sigVars, procVars
<1> QED
  BY <1>z, <1>4, <1>5, <1>6, <1>7, <1>8, <1>9

LEMMA SuspendInv ==
    ASSUME IInv, Suspend
    PROVE  IInv'
<1> USE DEF IInv
<1>2. /\ pc = "armed" /\ pc' = "suspend"
      /\ UNCHANGED <<tabVars, i, d_stopped, child, hdlVars, sigVars, procVars, logs>>
  BY DEF Suspend, At
<1>4. TypeInv'
  BY <1>2, LegionAssumption DEF TypeInv, Points, tabVars, hdlVars, sigVars, procVars, cliVars
<1>5. Control'
  BY <1>2 DEF Control, Phase, tabVars, hdlVars, sigVars, procVars, cliVars
<1>6. Table'
  BY <1>2 DEF Table, tabVars, procVars
<1>7. Children'
  BY <1>2 DEF Children, Phase, hdlVars, procVars, cliVars
<1>8. NamesUnique'
  BY <1>2 DEF NamesUnique, tabVars
<1>9. LogsOrdered'
  BY <1>2 DEF LogsOrdered
<1>z. Accounted'
  BY <1>2 DEF Accounted, OwnedBy, Phase, Control, Pids, tabVars, cliVars, hdlVars, sigVars, procVars
<1> QED
  BY <1>z, <1>4, <1>5, <1>6, <1>7, <1>8, <1>9

LEMMA WokenInv ==
    ASSUME IInv, Woken
    PROVE  IInv'
<1> USE DEF IInv
<1>2. /\ pc = "woken" /\ pc' \in {"rotate", "prompt"}
      /\ alarm' = FALSE /\ old_mask' = FALSE
      /\ pc' = "rotate" => d_stopped /\ UNCHANGED <<i, d_stopped, child, most_recent_index>>
      /\ pc' = "prompt" => i' = 0 /\ d_stopped' = FALSE /\ child' = 0 /\ most_recent_index' = 0
      /\ UNCHANGED <<list, hdlVars, pending, blocked, procVars, logs>>
  BY DEF Woken, At, Prompt
<1>4. TypeInv'
  <2>1. d_stopped' \in BOOLEAN /\ alarm' \in BOOLEAN /\ old_mask' \in BOOLEAN
    BY <1>2 DEF TypeInv, sigVars
  <2>2. Len(list) \in Nat
    BY DEF TypeInv
  <2> QED
    BY <2>1, <2>2, <1>2, LegionAssumption DEF TypeInv, Points, tabVars, hdlVars, sigVars, procVars, cliVars
<1>5. Control'
  BY <1>2 DEF Control, Phase, tabVars, hdlVars, sigVars, procVars, cliVars
<1>6. Table'
  BY <1>2 DEF Table, tabVars, procVars
<1>7. Children'
  BY <1>2 DEF Children, Phase, hdlVars, procVars, cliVars
<1>8. NamesUnique'
  BY <1>2 DEF NamesUnique, tabVars
<1>9. LogsOrdered'
  BY <1>2 DEF LogsOrdered
<1>z. Accounted'
  BY <1>2 DEF Accounted, OwnedBy, Phase, Control, Pids, tabVars, cliVars, hdlVars, sigVars, procVars
<1> QED
  BY <1>z, <1>4, <1>5, <1>6, <1>7, <1>8, <1>9

LEMMA StartInv ==
    ASSUME IInv, NEW n \in Names, Start(n)
    PROVE  IInv'
<1> USE DEF IInv
<1>1. PICK k \in DOMAIN list :
        /\ k \in Slots(n) /\ list[k].status = "inactive"
        /\ list' = [list EXCEPT ![k].status = "starting"]
        /\ i' = k
  BY DEF Start, SetStatus, Found
<1>2. /\ pc = "prompt" /\ pc' = "start" /\ d_stopped' = FALSE
      /\ UNCHANGED <<most_recent_index, child, hdlVars, sigVars, procVars, logs>>
  BY DEF Start, At
<1>3. /\ list' \in Seq(Entry) /\ Len(list') = Len(list)
      /\ DOMAIN list' = DOMAIN list
      /\ \A j \in DOMAIN list :
           /\ list'[j].name = list[j].name /\ list'[j].pid = list[j].pid
           /\ list'[j].using = list[j].using
           /\ list'[j].status = IF j = k THEN "starting" ELSE list[j].status
  BY <1>1, StatusAssigned DEF TypeInv, Statuses
<1>4. TypeInv'
  <2>1. d_stopped' \in BOOLEAN /\ alarm' \in BOOLEAN /\ blocked' \in BOOLEAN
    BY <1>2 DEF TypeInv, sigVars
  <2>2. Len(list) \in Nat
    BY DEF TypeInv
  <2> QED
    BY <2>1, <2>2, <1>1, <1>2, <1>3, LegionAssumption DEF TypeInv, hdlVars, sigVars, procVars, Points
<1>5. Control'
  BY <1>1, <1>2, <1>3 DEF Control, Phase, Slots, hdlVars, sigVars
<1>6. Table'
  BY <1>1, <1>2, <1>3 DEF Table, procVars
<1>7. Children'
  BY <1>2 DEF Children, Phase, hdlVars, procVars
<1>8. NamesUnique'
  BY <1>3 DEF NamesUnique
<1>9. LogsOrdered'
  BY <1>2 DEF LogsOrdered
<1>z. Accounted'
  BY ZenonT(40), <1>1, <1>2, <1>3 DEF Accounted, OwnedBy, Phase, Slots, Pids, tabVars, cliVars, hdlVars, sigVars, procVars
<1> QED
  BY <1>z, <1>4, <1>5, <1>6, <1>7, <1>8, <1>9

LEMMA StartFailsInv ==
    ASSUME IInv, StartFails
    PROVE  IInv'
<1> USE DEF IInv
<1>1. /\ pc = "start" /\ pc' = "prompt"
      /\ i' = 0 /\ d_stopped' = FALSE /\ child' = 0 /\ most_recent_index' = 0
      /\ blocked' \in {blocked, FALSE}
      /\ list' = [list EXCEPT ![i].status = "inactive"]
      /\ UNCHANGED <<hdlVars, pending, old_mask, alarm, procVars, logs>>
  BY DEF StartFails, At, Prompt, SetStatus
<1>2. PICK k \in DOMAIN list : k = i /\ list[k].status = "starting"
  BY <1>1 DEF Control, Phase
<1>3. /\ list' \in Seq(Entry) /\ Len(list') = Len(list)
      /\ DOMAIN list' = DOMAIN list
      /\ \A j \in DOMAIN list :
           /\ list'[j].name = list[j].name /\ list'[j].pid = list[j].pid
           /\ list'[j].using = list[j].using
           /\ list'[j].status = IF j = k THEN "inactive" ELSE list[j].status
  BY <1>1, <1>2, StatusAssigned DEF TypeInv, Statuses
<1>4. TypeInv'
  <2>1. d_stopped' \in BOOLEAN /\ alarm' \in BOOLEAN /\ blocked' \in BOOLEAN
    BY <1>1 DEF TypeInv, sigVars
  <2>2. Len(list) \in Nat
    BY DEF TypeInv
  <2> QED
    BY <2>1, <2>2, <1>1, <1>3, LegionAssumption DEF TypeInv, hdlVars, procVars, Points
<1>5. Control'
  BY <1>1 DEF Control, Phase, hdlVars
<1>6. Table'
  BY <1>1, <1>3 DEF Table, procVars
<1>7. Children'
  BY <1>1 DEF Children, Phase, hdlVars, procVars
<1>8. NamesUnique'
  BY <1>3 DEF NamesUnique
<1>9. LogsOrdered'
  BY <1>1 DEF LogsOrdered
<1>z. Accounted'
  BY <1>1, <1>2, <1>3 DEF Accounted, OwnedBy, Phase, Control, Pids, tabVars, cliVars, hdlVars, sigVars, procVars
<1> QED
  BY <1>z, <1>4, <1>5, <1>6, <1>7, <1>8, <1>9

LEMMA ForkInv ==
    ASSUME IInv, Fork
    PROVE  IInv'
<1> USE DEF IInv
<1> DEFINE new == [state |-> "forked", name |-> list[i].name, sigkill |-> FALSE]
<1>1. PICK p \in Pids :
        /\ \A q \in Pids : proc[q].state = "none" <=> p <= q
        /\ proc' = [proc EXCEPT ![p] = new]
        /\ child' = p
  BY DEF Fork
<1>2. /\ pc = "start" /\ pc' = "forked" /\ blocked' = FALSE
      /\ UNCHANGED <<tabVars, i, d_stopped, hdlVars, pending, old_mask, alarm,
                     reaped, logs>>
  BY DEF Fork, At
<1>3. i \in DOMAIN list
  BY <1>2 DEF Control, Phase
<1>4. list[i] \in Entry
  BY <1>3 DEF TypeInv
<1>5. new \in Proc /\ new.state = "forked" /\ new.name = list[i].name /\ list[i].name \in Names
  BY <1>4 DEF Entry, Proc, Alive
<1> HIDE DEF new
<1>6. /\ proc' \in [Pids -> Proc] /\ proc'[p] = new /\ p \notin reaped
      /\ \A q \in Pids : q # p => proc'[q] = proc[q]
      /\ proc[p].state = "none"
  BY <1>1, <1>5 DEF TypeInv, Dead, Pids
<1>a. TypeInv'
  BY <1>1, <1>2, <1>6 DEF TypeInv, hdlVars, tabVars, Points
<1>b. Table'
  BY <1>1, <1>2, <1>6 DEF Table, tabVars, TypeInv
<1>c. \A j \in DOMAIN list : list[j].pid # p
  BY <1>6 DEF Table, Pids
<1>d. Control'
  BY <1>1, <1>2, <1>5, <1>6, <1>c DEF Control, Phase, hdlVars, tabVars
<1>e. Children'
  <2>1. pc' # "exited" /\ Phase' = "forked" /\ child' = p
    BY <1>1, <1>2 DEF Phase
  <2>2. \A q \in Pids : proc[q].state # "forked"
    BY <1>2 DEF Children, Phase
  <2>3. \A q \in Pids : proc'[q].state # "none" => proc'[q].name \in Names
    BY <1>2, <1>5, <1>6 DEF Children
  <2>4. \A q, r \in Pids : q <= r /\ proc'[r].state # "none" => proc'[q].state # "none"
    BY <1>1, <1>5, <1>6 DEF Pids
  <2>5. \A q \in Pids : proc'[q].state = "forked" => q = p
    BY <2>2, <1>6
  <2>6. \A q \in Pids : q > p => proc'[q].state = "none"
    BY <1>1, <1>6 DEF Pids
  <2>7. \A m \in Names : \A v \in Versions : logs[m][v] # 0 => logs[m][v] \in Pids
    BY DEF TypeInv
  <2>8. \A m \in Names : \A v \in Versions : logs[m][v] # 0 =>
             proc'[logs[m][v]].state \notin {"none", "forked"}
    BY <1>2, <1>6, <2>7 DEF Children
  <2> QED
    BY <1>2, <2>1, <2>3, <2>4, <2>5, <2>6, <2>8 DEF Children
<1>f. NamesUnique'
  BY <1>2 DEF NamesUnique, tabVars
<1>g. LogsOrdered'
  BY <1>2 DEF LogsOrdered
<1>z. Accounted'
  BY <1>1, <1>2, <1>3, <1>5, <1>6 DEF Accounted, OwnedBy, Phase, Control, Pids, tabVars, cliVars, hdlVars, sigVars, procVars
<1> QED
  BY <1>z, <1>a, <1>b, <1>d, <1>e, <1>f, <1>g

LEMMA ParentInv ==
    ASSUME IInv, Parent
    PROVE  IInv'
<1> USE DEF IInv
<1>1. /\ pc = "forked" /\ pc' = "read"
      /\ most_recent_index' = i /\ alarm' = TRUE
      /\ list' = [list EXCEPT ![i].pid = child]
      /\ UNCHANGED <<i, d_stopped, child, hdlVars, pending, blocked, old_mask,
                     procVars, logs>>
  BY DEF Parent, At
<1>2. PICK k \in DOMAIN list :
        /\ k = i /\ list[k].status = "starting" /\ list[k].using
        /\ child \in Pids /\ child \notin reaped /\ proc[child].state # "none"
        /\ \A j \in DOMAIN list : list[j].pid # child
  BY <1>1 DEF Control, Phase
<1>3. /\ list' \in Seq(Entry) /\ Len(list') = Len(list)
      /\ DOMAIN list' = DOMAIN list
      /\ \A j \in DOMAIN list :
           /\ list'[j].name = list[j].name /\ list'[j].status = list[j].status
           /\ list'[j].using = list[j].using
           /\ list'[j].pid = IF j = k THEN child ELSE list[j].pid
  BY ZenonT(40), <1>1, <1>2, PidAssigned DEF TypeInv
<1>4. TypeInv'
  BY <1>1, <1>2, <1>3, LegionAssumption DEF TypeInv, hdlVars, procVars, Points
<1>5. Control'
  BY <1>1, <1>2, <1>3 DEF Control, Phase, hdlVars, procVars
<1>6. Table'
  BY <1>1, <1>2, <1>3 DEF Table, procVars
<1>7. Children'
  BY <1>1 DEF Children, Phase, hdlVars, procVars
<1>8. NamesUnique'
  BY <1>3 DEF NamesUnique
<1>9. LogsOrdered'
  BY <1>1 DEF LogsOrdered
<1>z. Accounted'
  BY <1>1, <1>2, <1>3 DEF Accounted, OwnedBy, Phase, Control, Pids, tabVars, cliVars, hdlVars, sigVars, procVars
<1> QED
  BY <1>z, <1>4, <1>5, <1>6, <1>7, <1>8, <1>9

LEMMA ReadReturnsInv ==
    ASSUME IInv, ReadReturns
    PROVE  IInv'
<1> USE DEF IInv
<1>2. /\ pc = "read" /\ pc' = "gotByte"
      /\ proc[child].state # "forked"
      /\ UNCHANGED <<tabVars, i, d_stopped, child, hdlVars, sigVars, procVars, logs>>
  BY DEF ReadReturns, At, Dead
<1>4. TypeInv'
  BY <1>2, LegionAssumption DEF TypeInv, Points, tabVars, hdlVars, sigVars, procVars, cliVars
<1>5. Control'
  BY <1>2 DEF Control, Phase, tabVars, hdlVars, sigVars, procVars, cliVars
<1>6. Table'
  BY <1>2 DEF Table, tabVars, procVars
<1>7. Children'
  BY <1>2 DEF Children, Phase, hdlVars, procVars, cliVars
<1>8. NamesUnique'
  BY <1>2 DEF NamesUnique, tabVars
<1>9. LogsOrdered'
  BY <1>2 DEF LogsOrdered
<1>z. Accounted'
  BY <1>2 DEF Accounted, OwnedBy, Phase, Control, Pids, tabVars, cliVars, hdlVars, sigVars, procVars
<1> QED
  BY <1>z, <1>4, <1>5, <1>6, <1>7, <1>8, <1>9

LEMMA ActivateInv ==
    ASSUME IInv, Activate
    PROVE  IInv'
<1> USE DEF IInv
<1>1. /\ pc = "gotByte" /\ pc' = "prompt" /\ alarm' = FALSE
      /\ i' = 0 /\ d_stopped' = FALSE /\ child' = 0 /\ most_recent_index' = 0
      /\ list' = [list EXCEPT ![i].status = "active"]
      /\ UNCHANGED <<hdlVars, pending, blocked, old_mask, procVars, logs>>
  BY DEF Activate, At, Prompt, SetStatus
<1>2. PICK k \in DOMAIN list :
        k = i /\ list[k].pid = child /\ child \in Pids /\ child \notin reaped
  BY <1>1 DEF Control, Phase
<1>3. /\ list' \in Seq(Entry) /\ Len(list') = Len(list)
      /\ DOMAIN list' = DOMAIN list
      /\ \A j \in DOMAIN list :
           /\ list'[j].name = list[j].name /\ list'[j].pid = list[j].pid
           /\ list'[j].using = list[j].using
           /\ list'[j].status = IF j = k THEN "active" ELSE list[j].status
  BY <1>1, <1>2, StatusAssigned DEF TypeInv, Statuses
<1>4. TypeInv'
  <2>1. d_stopped' \in BOOLEAN /\ alarm' \in BOOLEAN /\ blocked' \in BOOLEAN
    BY <1>1 DEF TypeInv, sigVars
  <2>2. Len(list) \in Nat
    BY DEF TypeInv
  <2> QED
    BY <2>1, <2>2, <1>1, <1>3, LegionAssumption DEF TypeInv, hdlVars, procVars, Points
<1>5. Control'
  BY <1>1 DEF Control, Phase, hdlVars
<1>6. Table'
  BY <1>1, <1>2, <1>3 DEF Table, procVars
<1>7. Children'
  BY <1>1 DEF Children, Phase, hdlVars, procVars
<1>8. NamesUnique'
  BY <1>3 DEF NamesUnique
<1>9. LogsOrdered'
  BY <1>1 DEF LogsOrdered
<1>z. Accounted'
  BY <1>1, <1>2, <1>3 DEF Accounted, OwnedBy, Phase, Control, Pids, tabVars, cliVars, hdlVars, sigVars, procVars
<1> QED
  BY <1>z, <1>4, <1>5, <1>6, <1>7, <1>8, <1>9

-----------------------------------------------------------------------------
(* What the rotation of one daemon's log keeps true of all logs.           *)
LEMMA LogsRotated ==
    ASSUME logs \in [Names -> [Versions -> {0} \cup Pids]], LogsOrdered,
           NEW n \in Names, logs' = [logs EXCEPT ![n] = Rotated(@)]
    PROVE  /\ logs' \in [Names -> [Versions -> {0} \cup Pids]]
           /\ LogsOrdered'
           /\ \A m \in Names : \A v \in Versions : logs'[m][v] # 0 =>
                \E w \in Versions : logs[m][w] = logs'[m][v]
<1>1. PICK f \in [Versions -> {0} \cup Pids] : f = logs[n]
  OBVIOUS
<1>2. PICK g : g = Rotated(f)
  OBVIOUS
<1>3. /\ g \in [Versions -> {0} \cup Pids]
      /\ Dropped(f, g) \/ \E k \in Versions : Moved(f, g, k)
  BY <1>2, RotatedMoves
<1>4. /\ logs' = [logs EXCEPT ![n] = g]
      /\ logs'[n] = g /\ \A m \in Names : m # n => logs'[m] = logs[m]
      /\ logs' \in [Names -> [Versions -> {0} \cup Pids]]
  BY <1>1, <1>2, <1>3
<1>5. \A v, w \in Versions : v < w /\ f[v] # 0 /\ f[w] # 0 => f[v] > f[w]
  BY <1>1 DEF LogsOrdered
<1>6. /\ \A v, w \in Versions : v < w /\ g[v] # 0 /\ g[w] # 0 => g[v] > g[w]
      /\ \A v \in Versions : g[v] # 0 => \E w \in Versions : f[w] = g[v]
  <2>1. CASE Dropped(f, g)
    BY <1>5, <2>1 DEF Dropped
  <2>2. ASSUME NEW k \in Versions, Moved(f, g, k)
        PROVE  /\ \A v, w \in Versions : v < w /\ g[v] # 0 /\ g[w] # 0 => g[v] > g[w]
               /\ \A v \in Versions : g[v] # 0 => \E w \in Versions : f[w] = g[v]
    <3>1. k \in Nat /\ k - 1 \in Versions /\ k - 1 < k
      BY <2>2, LegionAssumption DEF Moved, Versions
    <3>2. \A v \in Versions : v \in Nat
      BY LegionAssumption DEF Versions
    <3>3. ASSUME NEW v \in Versions, g[v] # 0
          PROVE  /\ v # k - 1
                 /\ v = k => g[v] = f[k - 1]
                 /\ v # k => g[v] = f[v]
      BY <2>2, <3>3 DEF Moved
    <3>4. ASSUME NEW v \in Versions, NEW w \in Versions, v < w, g[v] # 0, g[w] # 0
          PROVE  g[v] > g[w]
      BY <1>5, <3>1, <3>2, <3>3, <3>4
    <3> QED
      BY <3>1, <3>3, <3>4
  <2> QED
    BY <1>3, <2>1, <2>2
<1>7. LogsOrdered'
  BY <1>4, <1>6 DEF LogsOrdered
<1>8. \A m \in Names : \A v \in Versions : logs'[m][v] # 0 =>
                \E w \in Versions : logs[m][w] = logs'[m][v]
  BY <1>1, <1>4, <1>6
<1> QED
  BY <1>4, <1>7, <1>8

LEMMA LogrotateInv ==
    ASSUME IInv, NEW n \in Names, Logrotate(n)
    PROVE  IInv'
<1> USE DEF IInv
<1>2. /\ logs' = [logs EXCEPT ![n] = Rotated(@)]
      /\ UNCHANGED <<tabVars, cliVars, hdlVars, sigVars, procVars>>
  BY DEF Logrotate
<1>3. /\ logs' \in [Names -> [Versions -> {0} \cup Pids]]
      /\ LogsOrdered'
      /\ \A m \in Names : \A v \in Versions : logs'[m][v] # 0 =>
                \E w \in Versions : logs[m][w] = logs'[m][v]
  BY <1>2, LogsRotated DEF TypeInv
<1>4. TypeInv'
  BY <1>2, <1>3 DEF TypeInv, tabVars, cliVars, hdlVars, sigVars, procVars
<1>5. Control'
  BY <1>2 DEF Control, Phase, tabVars, cliVars, hdlVars, sigVars, procVars
<1>6. Table'
  BY <1>2 DEF Table, tabVars, procVars
<1>7. Children'
  BY <1>2, <1>3 DEF Children, Phase, cliVars, hdlVars, procVars
<1>8. NamesUnique'
  BY <1>2 DEF NamesUnique, tabVars
<1>9. LogsOrdered'
  BY <1>3
<1>z. Accounted'
  BY <1>2 DEF Logrotate, Accounted
<1> QED
  BY <1>z, <1>4, <1>5, <1>6, <1>7, <1>8, <1>9

LEMMA RotateAndRestartInv ==
    ASSUME IInv, RotateAndRestart
    PROVE  IInv'
<1> USE DEF IInv
<1>1. /\ pc = "rotate" /\ pc' = "start"
      /\ logs' = [logs EXCEPT ![list[i].name] = Rotated(@)]
      /\ list' = [list EXCEPT ![i].status = "starting"]
      /\ UNCHANGED <<most_recent_index, i, d_stopped, child, hdlVars, sigVars, procVars>>
  BY DEF RotateAndRestart, At, SetStatus
<1>a. PICK k \in DOMAIN list : k = i /\ list[k].status = "stopping" /\ list[k].using
  BY <1>1 DEF Control, Phase
<1>b. list[k] \in Entry
  BY DEF TypeInv
<1>c. PICK n \in Names : n = list[k].name
  BY <1>b DEF Entry
<1>2. /\ logs' \in [Names -> [Versions -> {0} \cup Pids]]
      /\ LogsOrdered'
      /\ \A m \in Names : \A v \in Versions : logs'[m][v] # 0 =>
                \E w \in Versions : logs[m][w] = logs'[m][v]
  <2>1. logs' = [logs EXCEPT ![n] = Rotated(@)]
    BY <1>1, <1>a, <1>c
  <2> QED
    BY <2>1, LogsRotated DEF TypeInv
<1>3. /\ list' \in Seq(Entry) /\ Len(list') = Len(list)
      /\ DOMAIN list' = DOMAIN list
      /\ \A j \in DOMAIN list :
           /\ list'[j].name = list[j].name /\ list'[j].pid = list[j].pid
           /\ list'[j].using = list[j].using
           /\ list'[j].status = IF j = k THEN "starting" ELSE list[j].status
  BY <1>1, <1>a, StatusAssigned DEF TypeInv, Statuses
<1>4. TypeInv'
  BY <1>1, <1>2, <1>3, LegionAssumption DEF TypeInv, hdlVars, sigVars, procVars, Points
<1>5. Control'
  BY <1>1, <1>a, <1>3 DEF Control, Phase, hdlVars, sigVars, procVars
<1>6. Table'
  BY <1>1, <1>3 DEF Table, procVars
<1>7. Children'
  BY <1>1, <1>2 DEF Children, Phase, hdlVars, procVars
<1>8. NamesUnique'
  BY <1>3 DEF NamesUnique
<1>9. LogsOrdered'
  BY <1>2
<1>z. Accounted'
  BY <1>1 DEF Accounted, Phase
<1> QED
  BY <1>z, <1>4, <1>5, <1>6, <1>7, <1>8, <1>9

LEMMA QuitInv ==
    ASSUME IInv, Quit
    PROVE  IInv'
<1> USE DEF IInv
<1>1. /\ pc' = "exited" /\ ret' = "prompt" /\ list' = <<>>
      /\ most_recent_index' = 0 /\ i' = 0 /\ child' = 0 /\ hix' = 0
      /\ d_stopped' = FALSE /\ pending' = FALSE /\ blocked' = FALSE
      /\ old_mask' = FALSE /\ alarm' = FALSE
      /\ proc' = [p \in Pids |-> NoProc] /\ reaped' = {} /\ logs' = logs
  BY DEF Quit
<1>2. list' \in Seq(Entry) /\ Len(list') = 0 /\ DOMAIN list' = {}
  BY <1>1
<1>3. /\ d_stopped' \in BOOLEAN /\ pending' \in BOOLEAN /\ blocked' \in BOOLEAN
      /\ old_mask' \in BOOLEAN /\ alarm' \in BOOLEAN
  BY <1>1
<1>a. proc' \in [Pids -> Proc]
  BY <1>1 DEF NoProc, Proc
<1>4. TypeInv'
  <2>1. /\ most_recent_index' = 0 /\ i' = 0 /\ child' = 0 /\ hix' = 0 /\ reaped' = {} /\ logs' = logs
        /\ pc' \in Points /\ ret' \in Points
    BY <1>1 DEF Points
  <2> QED
    BY <2>1, <1>2, <1>3, <1>a, LegionAssumption DEF TypeInv
<1>5. Control'
  BY <1>1 DEF Control, Phase
<1>6. Table'
  BY <1>2 DEF Table
<1>7. Children'
  BY <1>1 DEF Children
<1>8. NamesUnique'
  BY <1>2 DEF NamesUnique
<1>9. LogsOrdered'
  BY <1>1 DEF LogsOrdered
<1>z. Accounted'
  <2>1. \A p \in Pids : proc'[p].state = "none"
    BY <1>1 DEF NoProc
  <2> QED
    BY <1>1, <1>2, <2>1 DEF Accounted, Phase
<1> QED
  BY <1>z, <1>4, <1>5, <1>6, <1>7, <1>8, <1>9

LEMMA SigChldInv ==
    ASSUME IInv, SigChld
    PROVE  IInv'
<1> USE DEF IInv
<1>2. /\ pc # "chld" /\ pc # "exited" /\ pc' = "chld"
      /\ pending' = FALSE /\ hix' = 1
      /\ ret' = IF pc = "suspend" THEN "woken" ELSE pc
      /\ UNCHANGED <<tabVars, i, d_stopped, child, blocked, old_mask, alarm,
                     procVars, logs>>
  BY DEF SigChld, Deliverable, Masked
<1>4. TypeInv'
  <2>1. Len(list) \in Nat
    BY DEF TypeInv
  <2>2. pending' \in BOOLEAN
    BY <1>2
  <2>3. hix' \in 0 .. Len(list) + 1
    BY <1>2, <2>1
  <2> QED
    BY <1>2, <2>2, <2>3 DEF TypeInv, Points, tabVars, procVars
<1>5. Control'
  BY <1>2 DEF Control, Phase, tabVars, hdlVars, sigVars, procVars, cliVars
<1>6. Table'
  BY <1>2 DEF Table, tabVars, procVars
<1>7. Children'
  BY <1>2 DEF Children, Phase, hdlVars, procVars, cliVars
<1>8. NamesUnique'
  BY <1>2 DEF NamesUnique, tabVars
<1>9. LogsOrdered'
  BY <1>2 DEF LogsOrdered
<1>z. Accounted'
  BY <1>2 DEF Accounted, OwnedBy, Phase, Control, Pids, tabVars, cliVars, hdlVars, sigVars, procVars
<1> QED
  BY <1>z, <1>4, <1>5, <1>6, <1>7, <1>8, <1>9

LEMMA ReapInv ==
    ASSUME IInv, Reap
    PROVE  IInv'
<1> USE DEF IInv
<1>1. /\ pc = "chld" /\ hix \in DOMAIN list
      /\ list[hix].status = "active"
      /\ reaped' = reaped \cup {list[hix].pid}
      /\ hix' = hix + 1
      /\ UNCHANGED <<most_recent_index, cliVars, ret, sigVars, proc, logs>>
  BY DEF Reap
<1>2. PICK k \in DOMAIN list, p \in Pids : k = hix /\ p = list[hix].pid /\ p \notin reaped
  BY <1>1 DEF Table
<1>a. PICK s \in {"exited", "crashed"} :
        /\ list' = [list EXCEPT ![k].status = s]
        /\ proc[p].state \in Dead
        /\ s = "exited" => proc[p].state = "exited"
        /\ s = "crashed" => proc[p].state = "killed"
  BY <1>2 DEF Reap, SetStatus, Fates, Dead
<1>3. /\ list' \in Seq(Entry) /\ Len(list') = Len(list)
      /\ DOMAIN list' = DOMAIN list
      /\ \A j \in DOMAIN list :
           /\ list'[j].name = list[j].name /\ list'[j].pid = list[j].pid
           /\ list'[j].using = list[j].using
           /\ list'[j].status = IF j = k THEN s ELSE list[j].status
  <2>1. s \in Statuses
    BY DEF Statuses
  <2> QED
    BY <1>a, <2>1, StatusAssigned DEF TypeInv
<1>b. \A j \in DOMAIN list : j # k => list[j].pid # p
  BY <1>2 DEF Table, Pids
<1>c. \A j \in DOMAIN list : j # k => list'[j].status = list[j].status
  BY <1>3
<1>4. TypeInv'
  <2>1. Len(list) \in Nat
    BY DEF TypeInv
  <2>2. hix' \in 0 .. Len(list') + 1
    BY <1>1, <1>3, <2>1 DEF TypeInv
  <2>3. reaped' \subseteq Pids /\ \A q \in reaped' : proc'[q].state \in Dead
    BY <1>1, <1>2, <1>a DEF TypeInv
  <2> QED
    BY <1>1, <1>3, <2>2, <2>3 DEF TypeInv, cliVars, sigVars
<1>5. Control'
  <2>1. hix' \in 1 .. Len(list') + 1
    BY <1>1, <1>3 DEF TypeInv
  <2>2. Phase \in {"term", "armed", "suspend", "woken", "rotate", "start", "forked", "read", "gotByte"}
          => i # k /\ i \in DOMAIN list
    BY <1>1, <1>2 DEF Control
  <2>3. Phase \in {"forked", "read", "gotByte"} => child # p
    BY <1>1, <1>2, <1>b, <2>2 DEF Control
  <2>4. Phase' = Phase
    BY <1>1 DEF Phase, cliVars
  <2> QED
    BY <1>1, <1>2, <1>3, <1>c, <2>1, <2>2, <2>3, <2>4 DEF Control, cliVars, sigVars
<1>6. Table'
  BY <1>1, <1>2, <1>a, <1>3, <1>b DEF Table
<1>7. Children'
  BY <1>1 DEF Children, Phase, cliVars
<1>8. NamesUnique'
  BY <1>3 DEF NamesUnique
<1>9. LogsOrdered'
  BY <1>1 DEF LogsOrdered
<1>z. Accounted'
  BY SMTT(30), <1>1, <1>2, <1>3, <1>a DEF Accounted, OwnedBy, Phase, Control, Pids, tabVars, cliVars, hdlVars, sigVars, procVars
<1> QED
  BY <1>z, <1>4, <1>5, <1>6, <1>7, <1>8, <1>9

LEMMA PassOverInv ==
    ASSUME IInv, PassOver
    PROVE  IInv'
<1> USE DEF IInv
<1>2. /\ pc = "chld" /\ hix \in DOMAIN list /\ hix' = hix + 1
      /\ UNCHANGED <<tabVars, cliVars, ret, sigVars, procVars, logs>>
  BY DEF PassOver
<1>4. TypeInv'
  BY <1>2, LegionAssumption DEF TypeInv, Points, tabVars, hdlVars, sigVars, procVars, cliVars
<1>5. Control'
  BY <1>2 DEF Control, Phase, tabVars, hdlVars, sigVars, procVars, cliVars
<1>6. Table'
  BY <1>2 DEF Table, tabVars, procVars
<1>7. Children'
  BY <1>2 DEF Children, Phase, hdlVars, procVars, cliVars
<1>8. NamesUnique'
  BY <1>2 DEF NamesUnique, tabVars
<1>9. LogsOrdered'
  BY <1>2 DEF LogsOrdered
<1>z. Accounted'
  BY <1>2 DEF Accounted, OwnedBy, Phase, Control, Pids, tabVars, cliVars, hdlVars, sigVars, procVars
<1> QED
  BY <1>z, <1>4, <1>5, <1>6, <1>7, <1>8, <1>9

LEMMA HandlerReturnsInv ==
    ASSUME IInv, HandlerReturns
    PROVE  IInv'
<1> USE DEF IInv
<1>2. /\ pc = "chld" /\ pc' = ret /\ hix' = 0 /\ ret' = "prompt"
      /\ UNCHANGED <<tabVars, i, d_stopped, child, sigVars, procVars, logs>>
  BY DEF HandlerReturns
<1>4. TypeInv'
  BY <1>2, LegionAssumption DEF TypeInv, Points, tabVars, hdlVars, sigVars, procVars, cliVars
<1>5. Control'
  BY <1>2 DEF Control, Phase, tabVars, hdlVars, sigVars, procVars, cliVars
<1>6. Table'
  BY <1>2 DEF Table, tabVars, procVars
<1>7. Children'
  BY <1>2 DEF Children, Phase, hdlVars, procVars, cliVars
<1>8. NamesUnique'
  BY <1>2 DEF NamesUnique, tabVars
<1>9. LogsOrdered'
  BY <1>2 DEF LogsOrdered
<1>z. Accounted'
  BY <1>2 DEF Accounted, OwnedBy, Phase, Control, Pids, tabVars, cliVars, hdlVars, sigVars, procVars
<1> QED
  BY <1>z, <1>4, <1>5, <1>6, <1>7, <1>8, <1>9

(* Where the alarm can still ring, most_recent_index is the slot of the    *)
(* daemon that is waited for, whose process has not been waited for.       *)
LEMMA SigAlrmInv ==
    ASSUME IInv, SigAlrm
    PROVE  IInv'
<1> USE DEF IInv
<1>1. /\ pc # "exited" /\ alarm /\ alarm' = FALSE
      /\ pc' = IF pc = "suspend" THEN "woken" ELSE pc
      /\ UNCHANGED <<most_recent_index, i, d_stopped, child, hdlVars, pending,
                     blocked, old_mask, reaped, logs>>
  BY DEF SigAlrm
<1>2. PICK k \in DOMAIN list, p \in Pids :
        /\ k = i /\ most_recent_index = k /\ list[k].using
        /\ p = list[k].pid /\ p \notin reaped
        /\ Phase \in {"read", "gotByte"} => child = p
  BY <1>1 DEF Control, Table
<1>a. /\ list' = [list EXCEPT ![k].status = "stopping"]
      /\ proc' = [proc EXCEPT ![p].sigkill = proc[p].state \in Alive]
  BY <1>2 DEF SigAlrm, SetStatus
<1>3. /\ list' \in Seq(Entry) /\ Len(list') = Len(list)
      /\ DOMAIN list' = DOMAIN list
      /\ \A j \in DOMAIN list :
           /\ list'[j].name = list[j].name /\ list'[j].pid = list[j].pid
           /\ list'[j].using = list[j].using
           /\ list'[j].status = IF j = k THEN "stopping" ELSE list[j].status
  BY <1>a, StatusAssigned DEF TypeInv, Statuses
<1>b. /\ proc' \in [Pids -> Proc]
      /\ \A q \in Pids : proc'[q].name = proc[q].name
      /\ \A q \in Pids : proc'[q].state = proc[q].state
  <2>a. (proc[p].state \in Alive) \in BOOLEAN
    OBVIOUS
  <2>1. PICK b \in BOOLEAN : b = (proc[p].state \in Alive)
    BY <2>a, Zenon
  <2>2. proc' = [proc EXCEPT ![p].sigkill = b]
    BY <1>a, <2>1
  <2> QED
    BY <2>2, SigkillAssigned DEF TypeInv
<1>c. /\ Phase \in {"armed", "suspend", "woken", "read", "gotByte"}
      /\ Phase' = IF pc = "suspend" THEN "woken" ELSE Phase
      /\ pc = "suspend" => Phase = "suspend"
  BY <1>1 DEF Control, Phase, hdlVars
<1>d. \A j \in DOMAIN list : list[j].pid \in {0} \cup Pids
  <2>1. \A j \in DOMAIN list : list[j] \in Entry
    BY DEF TypeInv
  <2> QED
    BY <2>1 DEF Entry
<1>4. TypeInv'
  <2>1. alarm' \in BOOLEAN /\ pc' \in Points
    BY <1>1 DEF TypeInv, Points
  <2> QED
    BY <1>1, <1>3, <1>b, <2>1 DEF TypeInv, hdlVars
<1>5. Control'
  <2>1. alarm' = FALSE
    BY <1>1
  <2> QED
    BY <1>1, <1>2, <1>3, <1>b, <1>c, <2>1 DEF Control, hdlVars
<1>6. Table'
  BY <1>1, <1>2, <1>3, <1>b, <1>d DEF Table
<1>7. Children'
  <2>1. \A m \in Names : \A v \in Versions : logs[m][v] # 0 => logs[m][v] \in Pids
    BY DEF TypeInv
  <2> QED
    BY <1>1, <1>b, <1>c, <2>1 DEF Children
<1>8. NamesUnique'
  BY <1>3 DEF NamesUnique
<1>9. LogsOrdered'
  BY <1>1 DEF LogsOrdered
<1>z. Accounted'
  BY <1>1, <1>2, <1>3, <1>b, <1>c DEF Accounted, OwnedBy, Phase, Control, Pids, tabVars, cliVars, hdlVars, sigVars, procVars
<1> QED
  BY <1>z, <1>4, <1>5, <1>6, <1>7, <1>8, <1>9

-----------------------------------------------------------------------------
(* A child that goes on living or ends changes no entry, and an entry that *)
(* says how its process ended is not about a process that lives.           *)
LEMMA ChildStep ==
    ASSUME IInv, pc # "exited", NEW p \in Pids, proc[p].state \in Alive,
           NEW s \in {"running", "ready"} \cup Dead,
           proc' \in [Pids -> Proc],
           \A q \in Pids : proc'[q].name = proc[q].name,
           \A q \in Pids : proc'[q].state = IF q = p THEN s ELSE proc[q].state,
           pending' \in BOOLEAN,
           UNCHANGED <<tabVars, cliVars, hdlVars, blocked, old_mask, alarm, reaped>>,
           logs' \in [Names -> [Versions -> {0} \cup Pids]],
           LogsOrdered',
           \A m \in Names : \A v \in Versions :
               logs'[m][v] = logs[m][v] \/ logs'[m][v] = p
    PROVE  IInv'
<1> USE DEF IInv
<1>1. UNCHANGED <<list, most_recent_index, pc, i, d_stopped, child, hix, ret, blocked,
                  old_mask, alarm, reaped>>
  BY DEF tabVars, cliVars, hdlVars
<1>2. s # "none" /\ s # "forked" /\ proc[p].state # "none" /\ proc[p].state \notin Dead
  BY DEF Dead, Alive
<1>a. \A j \in DOMAIN list : list[j].pid \in {0} \cup Pids
  <2>1. \A j \in DOMAIN list : list[j] \in Entry
    BY DEF TypeInv
  <2> QED
    BY <2>1 DEF Entry
<1>b. 0 \notin Pids /\ p \notin reaped
  BY <1>2 DEF Pids, TypeInv
<1>4. TypeInv'
  BY <1>1, <1>b DEF TypeInv
<1>5. Control'
  BY <1>1, <1>2 DEF Control, Phase
<1>6. Table'
  BY <1>1, <1>2, <1>a, <1>b DEF Table, Dead
<1>7. Children'
  <2>1. \A m \in Names : \A v \in Versions : logs[m][v] # 0 => logs[m][v] \in Pids
    BY DEF TypeInv
  <2>2. Phase' = Phase
    BY <1>1 DEF Phase
  <2>3. \A q \in Pids : proc'[q].state # "none" <=> proc[q].state # "none"
    BY <1>2
  <2>4. \A q \in Pids : proc'[q].state = "forked" => proc[q].state = "forked"
    BY <1>2
  <2>5. \A m \in Names : \A v \in Versions : logs'[m][v] # 0 =>
             proc'[logs'[m][v]].state \notin {"none", "forked"}
    BY <1>2, <1>b, <2>1 DEF Children
  <2> QED
    BY <1>1, <2>2, <2>3, <2>4, <2>5 DEF Children
<1>8. NamesUnique'
  BY <1>1 DEF NamesUnique
<1>z. Accounted'
  BY <1>1, <1>2 DEF Accounted, OwnedBy, Phase
<1> QED
  BY <1>4, <1>5, <1>6, <1>7, <1>8, <1>z

LEMMA ChildInv ==
    ASSUME IInv, NEW p \in Pids, Child(p)
    PROVE  IInv'
<1> USE DEF IInv
<1>1. /\ pc # "exited" /\ proc[p].state = "forked"
      /\ proc' = [proc EXCEPT ![p].state = "running"]
      /\ logs' = [logs EXCEPT ![proc[p].name][0] = p]
      /\ UNCHANGED <<tabVars, cliVars, hdlVars, sigVars, reaped>>
  BY DEF Child
<1>2. /\ proc' \in [Pids -> Proc]
      /\ \A q \in Pids : proc'[q].name = proc[q].name
      /\ \A q \in Pids : proc'[q].state = IF q = p THEN "running" ELSE proc[q].state
  BY <1>1, StateOnlyAssigned DEF TypeInv, Alive
<1>3. PICK n \in Names : n = proc[p].name
  BY <1>1 DEF Children
<1>4. 0 \in Versions /\ \A v \in Versions : v \in Nat
  BY LegionAssumption DEF Versions
<1>5. /\ logs' = [logs EXCEPT ![n] = [logs[n] EXCEPT ![0] = p]]
      /\ logs[n] \in [Versions -> {0} \cup Pids]
  BY <1>1, <1>3 DEF TypeInv
<1>6. /\ logs' \in [Names -> [Versions -> {0} \cup Pids]]
      /\ \A m \in Names : \A v \in Versions :
           logs'[m][v] = IF m = n /\ v = 0 THEN p ELSE logs[m][v]
  BY <1>4, <1>5 DEF TypeInv
<1>7. ASSUME NEW w \in Versions, logs[n][w] # 0
      PROVE  p > logs[n][w]
  <2>1. PICK q \in Pids : q = logs[n][w]
    BY <1>7 DEF TypeInv
  <2>2. proc[q].state # "none" /\ q # p /\ ~(q > p)
    BY <1>1, <1>7, <2>1 DEF Children
  <2> QED
    BY <2>1, <2>2 DEF Pids
<1>8. LogsOrdered'
  BY <1>4, <1>6, <1>7 DEF LogsOrdered
<1>9. "running" \in {"running", "ready"} \cup Dead /\ proc[p].state \in Alive
  BY <1>1 DEF Alive
<1>a. pending' \in BOOLEAN /\ UNCHANGED <<tabVars, cliVars, hdlVars, blocked, old_mask, alarm, reaped>>
  BY <1>1 DEF sigVars, TypeInv
<1>b. \A m \in Names : \A v \in Versions :
        logs'[m][v] = logs[m][v] \/ logs'[m][v] = p
  BY <1>6
<1>c. proc[p].state \in Alive /\ logs' \in [Names -> [Versions -> {0} \cup Pids]]
  BY <1>6, <1>9
<1> HIDE DEF IInv
<1> QED
  BY <1>1, <1>2, <1>8, <1>9, <1>a, <1>b, <1>c, ChildStep

LEMMA SyncInv ==
    ASSUME IInv, NEW p \in Pids, Sync(p)
    PROVE  IInv'
<1> USE DEF IInv
<1>1. /\ pc # "exited" /\ proc[p].state = "running"
      /\ proc' = [proc EXCEPT ![p].state = "ready"]
      /\ UNCHANGED <<tabVars, cliVars, hdlVars, sigVars, reaped, logs>>
  BY DEF Sync
<1>2. /\ proc' \in [Pids -> Proc]
      /\ \A q \in Pids : proc'[q].name = proc[q].name
      /\ \A q \in Pids : proc'[q].state = IF q = p THEN "ready" ELSE proc[q].state
  BY <1>1, StateOnlyAssigned DEF TypeInv, Alive
<1>3. logs' \in [Names -> [Versions -> {0} \cup Pids]] /\ LogsOrdered'
  BY <1>1 DEF TypeInv, LogsOrdered
<1>9. "ready" \in {"running", "ready"} \cup Dead /\ proc[p].state \in Alive
  BY <1>1 DEF Alive
<1>a. pending' \in BOOLEAN /\ UNCHANGED <<tabVars, cliVars, hdlVars, blocked, old_mask, alarm, reaped>>
  BY <1>1 DEF sigVars, TypeInv
<1> QED
  BY <1>1, <1>2, <1>3, <1>9, <1>a, ChildStep

LEMMA EndsInv ==
    ASSUME IInv, NEW p \in Pids, NEW fate \in Dead, Ends(p, fate)
    PROVE  IInv'
<1> USE DEF IInv
<1>1. /\ pc # "exited" /\ proc[p].state \in Alive /\ pending' = TRUE
      /\ proc' = [proc EXCEPT ![p].state = fate, ![p].sigkill = FALSE]
      /\ UNCHANGED <<tabVars, cliVars, hdlVars, blocked, old_mask, alarm, reaped, logs>>
  BY DEF Ends
<1>2. /\ proc' \in [Pids -> Proc]
      /\ \A q \in Pids : proc'[q].name = proc[q].name
      /\ \A q \in Pids : proc'[q].state = IF q = p THEN fate ELSE proc[q].state
  BY <1>1, StateAssigned DEF TypeInv
<1>3. logs' \in [Names -> [Versions -> {0} \cup Pids]] /\ LogsOrdered'
  BY <1>1 DEF TypeInv, LogsOrdered
<1>9. fate \in {"running", "ready"} \cup Dead
  OBVIOUS
<1>a. pending' \in BOOLEAN /\ UNCHANGED <<tabVars, cliVars, hdlVars, blocked, old_mask, alarm, reaped>>
  BY <1>1
<1> QED
  BY <1>1, <1>2, <1>3, <1>9, <1>a, ChildStep

-----------------------------------------------------------------------------
LEMMA InitIInv == Init => IInv
<1> SUFFICES ASSUME Init PROVE IInv
  OBVIOUS
<1> USE DEF Init
<1>1. list = <<>> /\ list \in Seq(Entry) /\ Len(list) = 0 /\ DOMAIN list = {}
  OBVIOUS
<1>2. proc \in [Pids -> Proc] /\ \A p \in Pids : proc[p].state = "none"
  BY DEF NoProc, Proc
<1>3. logs \in [Names -> [Versions -> {0} \cup Pids]] /\ \A n \in Names : \A v \in Versions : logs[n][v] = 0
  OBVIOUS
<1>a. d_stopped \in BOOLEAN /\ pending \in BOOLEAN /\ blocked \in BOOLEAN /\ old_mask \in BOOLEAN /\ alarm \in BOOLEAN
  OBVIOUS
<1>4. TypeInv
  BY <1>1, <1>2, <1>3, <1>a, LegionAssumption DEF TypeInv, Points
<1>5. Control
  BY DEF Control, Phase
<1>6. Table
  BY <1>1 DEF Table
<1>7. Children
  BY <1>2, <1>3 DEF Children
<1>8. NamesUnique
  BY <1>1 DEF NamesUnique
<1>9. LogsOrdered
  BY <1>3 DEF LogsOrdered
<1>z. Accounted
  BY <1>1, <1>2 DEF Accounted, Phase
<1> QED
  BY <1>4, <1>5, <1>6, <1>7, <1>8, <1>9, <1>z DEF IInv

LEMMA StutterInv == IInv /\ UNCHANGED vars => IInv'
<1> SUFFICES ASSUME IInv, UNCHANGED vars PROVE IInv'
  OBVIOUS
<1> USE DEF vars, tabVars, cliVars, hdlVars, sigVars, procVars
<1>1. TypeInv'
  BY DEF IInv, TypeInv
<1>2. Control'
  BY DEF IInv, Control, Phase
<1>3. Table'
  BY DEF IInv, Table
<1>4. Children'
  BY DEF IInv, Children, Phase
<1>5. NamesUnique' /\ LogsOrdered' /\ Accounted'
  BY DEF IInv, NamesUnique, LogsOrdered, Accounted, OwnedBy, Phase
<1> QED
  BY <1>1, <1>2, <1>3, <1>4, <1>5 DEF IInv

(* Every step keeps the invariant.                                         *)
LEMMA NextIInv == IInv /\ [Next]_vars => IInv'
<1> SUFFICES ASSUME IInv, [Next]_vars PROVE IInv'
  OBVIOUS
<1>1. ASSUME NEW n \in Names, Command(n) PROVE IInv'
  BY <1>1, RegisterInv, UnregisterInv, ResetInv, BeginStopInv, StartInv, LogrotateInv
     DEF Command, Stop, LogrotateActive
<1>2. ASSUME Proceed PROVE IInv'
  BY <1>2, SendTermInv, SuspendInv, WokenInv, StartFailsInv, ForkInv, ParentInv,
     ReadReturnsInv, ActivateInv, RotateAndRestartInv, SigChldInv, ReapInv,
     PassOverInv, HandlerReturnsInv DEF Proceed
<1>3. ASSUME NEW p \in Pids, Daemon(p) PROVE IInv'
  <2>1. "killed" \in Dead /\ "exited" \in Dead
    BY DEF Dead
  <2> QED
    BY <1>3, <2>1, ChildInv, SyncInv, EndsInv DEF Daemon
<1> QED
  BY <1>1, <1>2, <1>3, SigAlrmInv, QuitInv, StutterInv DEF Next

(* The invariant holds in every reachable state.                           *)
THEOREM Invariance == Spec => []IInv
BY InitIInv, NextIInv, PTL DEF Spec

(* Every variable has its type, whatever the handlers interrupt.           *)
THEOREM TypeCorrect == Spec => []TypeOK
<1>1. IInv => TypeOK
  <2> SUFFICES ASSUME IInv PROVE TypeOK
    OBVIOUS
  <2>1. \A p \in Pids : proc[p].state \in Alive \cup Dead \cup {"none"}
    BY DEF IInv, TypeInv, Proc
  <2> QED
    BY <2>1 DEF IInv, TypeInv, TypeOK, Entry
<1> QED
  BY <1>1, Invariance, PTL

(* A name designates one daemon.                                           *)
THEOREM OneDaemonPerName == Spec => []NamesUnique
<1>1. IInv => NamesUnique
  BY DEF IInv
<1> QED
  BY <1>1, Invariance, PTL

(* An active or stopping daemon's process has not been waited for and is   *)
(* no other entry's: waitpid and kill() act on the daemon meant.           *)
THEOREM ActiveNotWaitedFor == Spec => []ActiveUnreaped
<1>1. IInv => ActiveUnreaped
  BY DEF IInv, Table, ActiveUnreaped, Pids
<1> QED
  BY <1>1, Invariance, PTL

(* The table tells how a daemon ended.                                     *)
THEOREM TableTellsFate == Spec => []StatusTellsFate
<1>1. IInv => StatusTellsFate
  BY DEF IInv, Table, StatusTellsFate
<1> QED
  BY <1>1, Invariance, PTL

(* Rotation keeps every log's versions in the order they were written.     *)
THEOREM LogVersionsInOrder == Spec => []LogsOrdered
<1>1. IInv => LogsOrdered
  BY DEF IInv
<1> QED
  BY <1>1, Invariance, PTL

(* Without logrotate every child that has not been waited for is the       *)
(* process of one entry in use that is not inactive.                       *)
THEOREM ChildrenAccounted == ~Rotates => (Spec => []EveryChildAccounted)
<1> SUFFICES ASSUME ~Rotates PROVE Spec => []EveryChildAccounted
  OBVIOUS
<1>1. IInv => EveryChildAccounted
  <2> SUFFICES ASSUME IInv, NEW p \in Pids, proc[p].state # "none", p \notin reaped
               PROVE  \E j \in DOMAIN list :
                         /\ list[j].using
                         /\ list[j].status \in {"starting", "active", "stopping"}
                         /\ p = IF j = i /\ "forked" \in {pc, ret} THEN child ELSE list[j].pid
    BY DEF EveryChildAccounted
  <2>1. PICK j \in DOMAIN list : OwnedBy(p, j)
    BY DEF IInv, Accounted
  <2>2. Phase = "forked" <=> "forked" \in {pc, ret}
    BY DEF IInv, Control, Phase
  <2> QED
    BY <2>1, <2>2 DEF OwnedBy
<1> QED
  BY <1>1, Invariance, PTL

=============================================================================
