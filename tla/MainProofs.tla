----------------------------- MODULE MainProofs -----------------------------
(* Proofs about what main keeps: its processes and the route graph.        *)
EXTENDS Session, Topology, SetInduction, SequenceTheorems, FiniteSetTheorems, TLAPS

(***************************************************************************)
(* Proofs about Session for any number of targets, plugins, crashes,       *)
(* failed forks and pauses: SingleIncarnation, NoneLeft and PauseTogether. *)
(*                                                                         *)
(* None of the three is inductive.  What makes them hold is a relation     *)
(* between the process table and main's own records (Table): a process     *)
(* that has not been collected is always the one main has on record for    *)
(* its session and role.                                                   *)
(***************************************************************************)

Rec == [sess : Sessions, role : Roles, st : Live \cup Zombie \cup {"reaped"},
        usr1 : BOOLEAN, paused : BOOLEAN, deaf : BOOLEAN, merged : BOOLEAN]

(* The process table and main's records agree.                             *)
Table(procs, pids) ==
    /\ procs \in Seq(Rec)
    /\ 2 * N <= Len(procs)
    /\ pids \in [Sessions -> [Roles -> DOMAIN procs \cup {-1}]]
    /\ \A q \in DOMAIN procs : procs[q].st # "reaped" => pids[procs[q].sess][procs[q].role] = q
    /\ \A s \in Sessions, r \in Roles :
          pids[s][r] \in DOMAIN procs =>
             procs[pids[s][r]].sess = s /\ procs[pids[s][r]].role = r

(* Whether a logic engine is paused once it has taken its SIGUSR1.         *)
Will(p) == IF p.usr1 THEN ~p.paused ELSE p.paused

(* Those forked at the start have been sent equally many SIGUSR1, which    *)
(* have all toggled or are about to, unless one of them was lost.          *)
Pauses(procs) ==
    /\ \A s \in Sessions : procs[2 * s].role = "logic" /\ procs[2 * s].st \notin {"inherit", "reset"}
    /\ \A s, t \in Sessions :
          (/\ procs[2 * s].st \in {"boot", "running"} /\ ~procs[2 * s].merged
           /\ procs[2 * t].st \in {"boot", "running"} /\ ~procs[2 * t].merged)
             => Will(procs[2 * s]) = Will(procs[2 * t])

(* The last loop: the children it has waited for are collected.            *)
Collected(procs, pids, n) ==
    \A s \in Sessions :
        /\ 2 * s - 2 < n /\ pids[s]["gk"] \in DOMAIN procs => procs[pids[s]["gk"]].st = "reaped"
        /\ 2 * s - 1 < n /\ pids[s]["logic"] \in DOMAIN procs => procs[pids[s]["logic"]].st = "reaped"

MainInv ==
    /\ active \in [Sessions -> BOOLEAN] /\ running \in BOOLEAN
    /\ pc \in {"reap", "ui", "editor", "kill", "wait", "cleanup"} \cup Ended
    /\ waited \in 0..(2 * N)
    /\ plug \in [Plugins -> {"off", "up"} \cup Gone \cup Holding]
    /\ pc \in {"reap", "ui", "editor", "kill"} => waited = 0
    /\ pc = "wait" => waited < 2 * N
    /\ pc \in {"cleanup", "done"} => waited = 2 * N
    /\ pc = "done" => \A q \in Plugins : plug[q] = "off"
    /\ Collected(proc, pid, waited)

SessionInv == Table(proc, pid) /\ Pauses(proc) /\ MainInv

-----------------------------------------------------------------------------
(* Lemmas about the process table.                                         *)

(* A table of the same processes, in which nobody comes back from being    *)
(* collected: what every signal and every step of a child is.              *)
Relabels(procs, procs2) ==
    /\ procs2 = [q \in DOMAIN procs |-> procs2[q]]
    /\ \A q \in DOMAIN procs :
          /\ procs2[q] \in Rec
          /\ procs2[q].sess = procs[q].sess /\ procs2[q].role = procs[q].role
          /\ procs[q].st = "reaped" => procs2[q].st = "reaped"

LEMMA RelabelKeepsTable ==
    ASSUME NEW procs, NEW pids, NEW procs2, NEW n,
           Table(procs, pids), Relabels(procs, procs2)
    PROVE  /\ Table(procs2, pids)
           /\ DOMAIN procs2 = DOMAIN procs
           /\ Collected(procs, pids, n) => Collected(procs2, pids, n)
  <1>1. DOMAIN procs2 = DOMAIN procs
    BY DEF Relabels
  <1>2. procs2 \in Seq(Rec) /\ Len(procs2) = Len(procs)
    <2>1. Len(procs) \in Nat /\ DOMAIN procs = 1..Len(procs)
      BY LenProperties DEF Table
    <2>2. procs2 \in [1..Len(procs) -> Rec]
      BY <2>1 DEF Relabels
    <2>3. QED
      BY <2>1, <2>2, SeqDef, LenProperties
  <1>3. /\ pids \in [Sessions -> [Roles -> DOMAIN procs2 \cup {-1}]]
        /\ 2 * N <= Len(procs2)
    BY <1>1, <1>2 DEF Table
  <1>4. ASSUME NEW q \in DOMAIN procs2, procs2[q].st # "reaped"
        PROVE  pids[procs2[q].sess][procs2[q].role] = q
    BY <1>1, <1>4 DEF Table, Relabels
  <1>5. ASSUME NEW s \in Sessions, NEW r \in Roles, pids[s][r] \in DOMAIN procs2
        PROVE  procs2[pids[s][r]].sess = s /\ procs2[pids[s][r]].role = r
    BY <1>1, <1>5 DEF Table, Relabels
  <1>6. Collected(procs, pids, n) => Collected(procs2, pids, n)
    BY <1>1 DEF Relabels, Collected
  <1>7. QED
    BY <1>1, <1>2, <1>3, <1>4, <1>5, <1>6 DEF Table

(* A process that stays alive loses no SIGUSR1 and is sent none, and its   *)
(* start does not begin anew.                                              *)
Follows(p, new) ==
    new.st \in Live =>
        (/\ p.st \in Live
         /\ new.st \in {"inherit", "reset"} => p.st \in {"inherit", "reset"}
         /\ Will(new) = Will(p) /\ new.merged = p.merged)

Settles(procs, procs2) == \A q \in DOMAIN procs : Follows(procs[q], procs2[q])

LEMMA SettleKeepsPauses ==
    ASSUME NEW procs, NEW pids, NEW procs2,
           Table(procs, pids), Relabels(procs, procs2), Settles(procs, procs2), Pauses(procs)
    PROVE  Pauses(procs2)
  <1>1. \A s \in Sessions : 2 * s \in DOMAIN procs
    BY LenProperties, SessionAssumption DEF Table, Sessions
  <1>2. \A s \in Sessions : procs2[2 * s].role = "logic" /\ procs2[2 * s].st \notin {"inherit", "reset"}
    BY <1>1 DEF Relabels, Settles, Follows, Pauses, Live, Starting
  <1>3. ASSUME NEW s \in Sessions, procs2[2 * s].st \in {"boot", "running"}
        PROVE  /\ procs[2 * s].st \in {"boot", "running"}
               /\ Will(procs2[2 * s]) = Will(procs[2 * s]) /\ procs2[2 * s].merged = procs[2 * s].merged
    BY <1>1, <1>3 DEF Settles, Follows, Pauses, Live, Starting
  <1>4. QED
    BY <1>2, <1>3 DEF Pauses

(* A signal of main or of the terminal is a relabelling.                   *)
LEMMA SignalRelabels ==
    ASSUME NEW procs, NEW pids, NEW Q, Table(procs, pids)
    PROVE  /\ Relabels(procs, Kill(procs, Q, OnTerm)) /\ Settles(procs, Kill(procs, Q, OnTerm))
           /\ Relabels(procs, Kill(procs, Q, OnInt)) /\ Settles(procs, Kill(procs, Q, OnInt))
           /\ Relabels(procs, Kill(procs, Q, OnUsr1))
  <1>1. \A q \in DOMAIN procs : procs[q] \in Rec
    BY ElementOfSeq, LenProperties DEF Table
  <1>2. ASSUME NEW p \in Rec
        PROVE  /\ OnInt(p) \in Rec /\ OnInt(p).sess = p.sess /\ OnInt(p).role = p.role
               /\ p.st = "reaped" => OnInt(p).st = "reaped"
               /\ OnInt(p) = p \/ OnInt(p).st = "killed"
    BY DEF OnInt, Dead, Process, Rec, Live, Starting, Zombie
  <1>3. ASSUME NEW p \in Rec
        PROVE  /\ OnTerm(p) \in Rec /\ OnTerm(p).sess = p.sess /\ OnTerm(p).role = p.role
               /\ p.st = "reaped" => OnTerm(p).st = "reaped"
               /\ \/ OnTerm(p).st = "killed"
                  \/ /\ OnTerm(p).st = p.st /\ OnTerm(p).usr1 = p.usr1
                     /\ OnTerm(p).paused = p.paused /\ OnTerm(p).merged = p.merged
    <2>1. CASE p.st = "inherit"
      BY <2>1 DEF OnTerm, Rec
    <2>2. CASE p.st # "inherit"
      BY <1>2, <2>2 DEF OnTerm
    <2>3. QED
      BY <2>1, <2>2
  <1>4. ASSUME NEW p \in Rec
        PROVE  /\ OnUsr1(p) \in Rec /\ OnUsr1(p).sess = p.sess /\ OnUsr1(p).role = p.role
               /\ p.st = "reaped" => OnUsr1(p).st = "reaped"
    <2>1. (p.merged \/ p.usr1) \in BOOLEAN
      OBVIOUS
    <2>2. CASE p.st \in {"boot", "running"}
      BY <2>1, <2>2 DEF OnUsr1, Rec
    <2>3. CASE p.st \notin {"boot", "running"}
      BY <2>3 DEF OnUsr1
    <2>4. QED
      BY <2>2, <2>3
  <1>5. Relabels(procs, Kill(procs, Q, OnTerm)) /\ Settles(procs, Kill(procs, Q, OnTerm))
    BY <1>1, <1>3 DEF Kill, Relabels, Settles, Follows, Will, Live, Starting
  <1>6. Relabels(procs, Kill(procs, Q, OnInt)) /\ Settles(procs, Kill(procs, Q, OnInt))
    BY <1>1, <1>2 DEF Kill, Relabels, Settles, Follows, Live, Starting
  <1>7. Relabels(procs, Kill(procs, Q, OnUsr1))
    BY <1>1, <1>4 DEF Kill, Relabels
  <1>8. QED
    BY <1>5, <1>6, <1>7

(* What fork() adds to the table, and what its failure leaves: the role    *)
(* has just lost its process.                                              *)
LEMMA SpawnKeepsTable ==
    ASSUME NEW procs, NEW s \in Sessions, NEW r \in Roles, Table(procs, pid), Pauses(procs),
           pid[s][r] \in DOMAIN procs, procs[pid[s][r]].st = "reaped",
           Spawn(procs, s, r)
    PROVE  Table(proc', pid') /\ Pauses(proc')
  <1>1. /\ Len(procs) \in Nat /\ DOMAIN procs = 1..Len(procs)
        /\ \A q \in DOMAIN procs : procs[q] \in Rec
    BY ElementOfSeq, LenProperties DEF Table
  <1>2. \A q \in DOMAIN procs : procs[q].sess = s /\ procs[q].role = r => procs[q].st = "reaped"
    BY DEF Table
  <1>3. CASE /\ proc' = Append(procs, Process(s, r, "inherit"))
             /\ pid' = [pid EXCEPT ![s][r] = Len(procs) + 1]
    <2> DEFINE P == Process(s, r, "inherit")
    <2>1. P \in Rec /\ P.sess = s /\ P.role = r /\ P.st = "inherit"
      BY DEF Process, Rec, Live, Starting
    <2> HIDE DEF P
    <2>2. /\ proc' \in Seq(Rec) /\ Len(proc') = Len(procs) + 1
          /\ DOMAIN proc' = 1..(Len(procs) + 1)
          /\ \A q \in 1..Len(procs) : proc'[q] = procs[q]
          /\ proc'[Len(procs) + 1] = P
      <3>1. proc' = Append(procs, P) /\ procs \in Seq(Rec)
        BY <1>3 DEF Table, P
      <3>2. QED
        BY <3>1, <2>1, AppendProperties, LenProperties
    <2>3. /\ pid' \in [Sessions -> [Roles -> DOMAIN proc' \cup {-1}]]
          /\ pid'[s][r] = Len(procs) + 1
          /\ \A t \in Sessions, o \in Roles : <<t, o>> # <<s, r>> => pid'[t][o] = pid[t][o]
      BY <1>1, <1>3, <2>2 DEF Table
    <2>4. ASSUME NEW q \in DOMAIN proc', proc'[q].st # "reaped"
          PROVE  pid'[proc'[q].sess][proc'[q].role] = q
      <3>1. CASE q = Len(procs) + 1
        BY <3>1, <2>1, <2>2, <2>3
      <3>2. CASE q \in 1..Len(procs)
        <4>1. <<procs[q].sess, procs[q].role>> # <<s, r>> /\ pid[procs[q].sess][procs[q].role] = q
          BY <3>2, <1>1, <1>2, <2>2, <2>4 DEF Table
        <4>2. procs[q].sess \in Sessions /\ procs[q].role \in Roles
          BY <3>2, <1>1 DEF Rec
        <4>3. QED
          BY <4>1, <4>2, <3>2, <2>2, <2>3
      <3>3. QED
        BY <3>1, <3>2, <1>1, <2>2
    <2>5. ASSUME NEW t \in Sessions, NEW o \in Roles, pid'[t][o] \in DOMAIN proc'
          PROVE  proc'[pid'[t][o]].sess = t /\ proc'[pid'[t][o]].role = o
      <3>1. CASE t = s /\ o = r
        BY <3>1, <2>1, <2>2, <2>3
      <3>2. CASE ~(t = s /\ o = r)
        <4>1. pid'[t][o] = pid[t][o] /\ pid[t][o] \in 1..Len(procs)
          BY <3>2, <2>2, <2>3, <2>5, <1>1 DEF Table
        <4>2. QED
          BY <4>1, <1>1, <2>2 DEF Table
      <3>3. QED
        BY <3>1, <3>2
    <2>6. Table(proc', pid')
      BY <2>2, <2>3, <2>4, <2>5, <1>1, SessionAssumption DEF Table
    <2>7. Pauses(proc')
      <3>1. \A t \in Sessions : 2 * t \in 1..Len(procs)
        BY <1>1, SessionAssumption DEF Table, Sessions
      <3>2. \A t \in Sessions : proc'[2 * t] = procs[2 * t]
        BY <3>1, <2>2
      <3>3. QED
        BY <3>2 DEF Pauses
    <2>8. QED
      BY <2>6, <2>7
  <1>4. CASE proc' = procs /\ pid' = [pid EXCEPT ![s][r] = -1]
    <2>1. /\ pid' \in [Sessions -> [Roles -> DOMAIN procs \cup {-1}]]
          /\ pid'[s][r] = -1
          /\ \A t \in Sessions, o \in Roles : <<t, o>> # <<s, r>> => pid'[t][o] = pid[t][o]
      BY <1>4 DEF Table
    <2>2. ASSUME NEW q \in DOMAIN procs, procs[q].st # "reaped"
          PROVE  pid'[procs[q].sess][procs[q].role] = q
      <3>1. procs[q].sess \in Sessions /\ procs[q].role \in Roles
        BY <1>1 DEF Rec
      <3>2. QED
        BY <3>1, <2>1, <2>2, <1>2 DEF Table
    <2>3. ASSUME NEW t \in Sessions, NEW o \in Roles, pid'[t][o] \in DOMAIN procs
          PROVE  procs[pid'[t][o]].sess = t /\ procs[pid'[t][o]].role = o
      <3>1. -1 \notin DOMAIN procs
        BY <1>1
      <3>2. QED
        BY <3>1, <2>1, <2>3 DEF Table
    <2>4. QED
      BY <1>4, <2>1, <2>2, <2>3 DEF Table
  <1>5. QED
    BY <1>3, <1>4 DEF Spawn

-----------------------------------------------------------------------------
(* The invariant.                                                          *)

LEMMA InitInv == Init => SessionInv
  <1> SUFFICES ASSUME Init PROVE SessionInv
    OBVIOUS
  <1>1. N \in Nat /\ N >= 1
    BY SessionAssumption
  <1>2. DOMAIN proc = 1..(2 * N) /\ 2 * N \in Nat
    BY <1>1 DEF Init
  <1>3. ASSUME NEW p \in 1..(2 * N)
        PROVE  /\ proc[p] \in Rec
               /\ proc[p].sess = (p + 1) \div 2
               /\ proc[p].role = IF p % 2 = 1 THEN "gk" ELSE "logic"
               /\ proc[p].st = "boot" /\ proc[p].usr1 = FALSE /\ proc[p].paused = FALSE
    <2>1. (p + 1) \div 2 \in Sessions
      BY <1>1 DEF Sessions
    <2>2. proc[p] = Process((p + 1) \div 2, IF p % 2 = 1 THEN "gk" ELSE "logic", "boot")
      BY DEF Init
    <2>3. QED
      BY <2>1, <2>2 DEF Process, Rec, Roles, Live, Starting
  <1>4. proc \in Seq(Rec) /\ Len(proc) = 2 * N
    <2>1. proc \in [1..(2 * N) -> Rec]
      BY <1>2, <1>3 DEF Init
    <2>2. QED
      BY <2>1, <1>2, SeqDef, LenProperties
  <1>5. ASSUME NEW s \in Sessions
        PROVE  /\ s \in 1..N /\ DOMAIN pid[s] = Roles
               /\ pid[s]["gk"] = 2 * s - 1 /\ pid[s]["logic"] = 2 * s
               /\ pid[s] \in [Roles -> (1..(2 * N)) \cup {-1}]
    <2>1. s \in 1..N
      BY DEF Sessions
    <2>2. pid[s] = [gk |-> 2 * s - 1, logic |-> 2 * s]
      BY DEF Init
    <2>3. DOMAIN pid[s] = Roles /\ pid[s]["gk"] = 2 * s - 1 /\ pid[s]["logic"] = 2 * s
      BY <2>2 DEF Roles
    <2>4. 2 * s - 1 \in 1..(2 * N) /\ 2 * s \in 1..(2 * N)
      BY <2>1, <1>1
    <2>5. pid[s] = [r \in Roles |-> pid[s][r]]
      BY <2>2 DEF Roles
    <2>6. QED
      BY <2>1, <2>3, <2>4, <2>5 DEF Roles
  <1>6. pid \in [Sessions -> [Roles -> DOMAIN proc \cup {-1}]]
    BY <1>2, <1>5 DEF Init
  <1>7. ASSUME NEW q \in DOMAIN proc
        PROVE  pid[proc[q].sess][proc[q].role] = q
    <2>1. q \in 1..(2 * N) /\ (q + 1) \div 2 \in Sessions
      BY <1>1, <1>2 DEF Sessions
    <2>2. CASE q % 2 = 1
      <3>1. pid[proc[q].sess][proc[q].role] = 2 * ((q + 1) \div 2) - 1
        BY <2>1, <2>2, <1>3, <1>5
      <3>2. QED
        BY <3>1, <2>1, <2>2, <1>1
    <2>3. CASE q % 2 # 1
      <3>1. pid[proc[q].sess][proc[q].role] = 2 * ((q + 1) \div 2)
        BY <2>1, <2>3, <1>3, <1>5
      <3>2. QED
        BY <3>1, <2>1, <2>3, <1>1
    <2>4. QED
      BY <2>2, <2>3
  <1>8. ASSUME NEW s \in Sessions
        PROVE  /\ proc[2 * s - 1].sess = s /\ proc[2 * s - 1].role = "gk"
               /\ proc[2 * s].sess = s /\ proc[2 * s].role = "logic"
               /\ proc[2 * s].st = "boot" /\ proc[2 * s].usr1 = FALSE /\ proc[2 * s].paused = FALSE
    <2>1. /\ s \in 1..N /\ 2 * s - 1 \in 1..(2 * N) /\ 2 * s \in 1..(2 * N)
          /\ (2 * s - 1) % 2 = 1 /\ (2 * s) % 2 = 0
          /\ ((2 * s - 1) + 1) \div 2 = s /\ (2 * s + 1) \div 2 = s
      BY <1>1 DEF Sessions
    <2>2. /\ proc[2 * s - 1].sess = ((2 * s - 1) + 1) \div 2
          /\ proc[2 * s - 1].role = IF (2 * s - 1) % 2 = 1 THEN "gk" ELSE "logic"
      BY <2>1, <1>3
    <2>3. /\ proc[2 * s].sess = (2 * s + 1) \div 2
          /\ proc[2 * s].role = IF (2 * s) % 2 = 1 THEN "gk" ELSE "logic"
          /\ proc[2 * s].st = "boot" /\ proc[2 * s].usr1 = FALSE /\ proc[2 * s].paused = FALSE
      BY <2>1, <1>3
    <2>4. QED
      BY <2>1, <2>2, <2>3
  <1>9. Table(proc, pid)
    <2>1. \A s \in Sessions, r \in Roles : proc[pid[s][r]].sess = s /\ proc[pid[s][r]].role = r
      <3> TAKE s \in Sessions, r \in Roles
      <3>1. CASE r = "gk"
        BY <1>5, <1>8, <3>1
      <3>2. CASE r = "logic"
        BY <1>5, <1>8, <3>2
      <3>3. QED
        BY <3>1, <3>2 DEF Roles
    <2>2. QED
      BY <2>1, <1>1, <1>4, <1>6, <1>7 DEF Table
  <1>10. Pauses(proc)
    BY <1>8 DEF Pauses, Will
  <1>11. Collected(proc, pid, 0)
    BY <1>5 DEF Collected
  <1>12. plug \in [Plugins -> {"off", "up"} \cup Gone \cup Holding]
    BY DEF Init
  <1>13. QED
    BY <1>1, <1>9, <1>10, <1>11, <1>12 DEF SessionInv, MainInv, Init

(* Steps of a child, which main does not notice.                           *)
LEMMA ChildInv ==
    ASSUME SessionInv, NEW p \in DOMAIN proc,
           ChildStart(p) \/ TakeUsr1(p) \/ GkExit(p) \/ ChildCrash(p)
    PROVE  SessionInv'
  <1>1. /\ \A q \in DOMAIN proc : proc[q] \in Rec
        /\ proc[p] \in Rec
        /\ Table(proc, pid) /\ Pauses(proc) /\ MainInv
    BY ElementOfSeq, LenProperties DEF Table, SessionInv
  <1>2. UNCHANGED <<mainVars, plug>>
    BY DEF ChildStart, TakeUsr1, GkExit, ChildCrash
  <1>3. Relabels(proc, proc') /\ Settles(proc, proc')
    <2>1. ASSUME NEW new \in Rec, proc' = [proc EXCEPT ![p] = new],
                 new.sess = proc[p].sess, new.role = proc[p].role, proc[p].st # "reaped",
                 Follows(proc[p], new)
          PROVE  Relabels(proc, proc') /\ Settles(proc, proc')
      <3>1. /\ proc' = [q \in DOMAIN proc |-> proc'[q]] /\ proc'[p] = new
            /\ \A q \in DOMAIN proc : q # p => proc'[q] = proc[q]
        BY <2>1
      <3>2. Relabels(proc, proc')
        BY <1>1, <2>1, <3>1 DEF Relabels
      <3>3. Settles(proc, proc')
        <4>1. \A q \in DOMAIN proc : Follows(proc[q], proc[q])
          BY DEF Follows
        <4>2. QED
          BY <2>1, <3>1, <4>1 DEF Settles
      <3>4. QED
        BY <3>2, <3>3
    <2>2. ASSUME NEW st \in Zombie, proc' = [proc EXCEPT ![p] = Dead(@, st)], proc[p].st # "reaped"
          PROVE  Relabels(proc, proc') /\ Settles(proc, proc')
      <3>1. /\ Dead(proc[p], st) \in Rec /\ Dead(proc[p], st).sess = proc[p].sess
            /\ Dead(proc[p], st).role = proc[p].role /\ Dead(proc[p], st).st = st
        BY <1>1 DEF Dead, Process, Rec
      <3>2. st \notin Live
        BY DEF Zombie, Live, Starting
      <3>3. Follows(proc[p], Dead(proc[p], st))
        BY <3>1, <3>2 DEF Follows
      <3>4. QED
        BY <2>1, <2>2, <3>1, <3>3
    <2>3. CASE GkExit(p) \/ ChildCrash(p)
      <3>1. PICK st \in Zombie : proc' = [proc EXCEPT ![p] = Dead(@, st)]
        BY <2>3 DEF GkExit, ChildCrash, Zombie
      <3>2. proc[p].st # "reaped"
        BY <2>3 DEF GkExit, ChildCrash, Live, Starting
      <3>3. QED
        BY <2>2, <3>1, <3>2
    <2>4. CASE TakeUsr1(p) /\ proc[p].st = "boot"
      BY <2>2, <2>4 DEF TakeUsr1, Zombie
    <2>5. CASE TakeUsr1(p) /\ proc[p].st # "boot"
      <3> DEFINE new == handle_sigusr1(proc[p])
      <3>1. proc' = [proc EXCEPT ![p] = new] /\ proc[p].usr1
        BY <2>5 DEF TakeUsr1
      <3>2. /\ new \in Rec /\ new.sess = proc[p].sess /\ new.role = proc[p].role
            /\ new.st = proc[p].st /\ new.merged = proc[p].merged
            /\ new.usr1 = FALSE /\ new.paused = ~proc[p].paused
        BY <1>1 DEF Rec, handle_sigusr1
      <3> HIDE DEF new
      <3>3. Will(new) = Will(proc[p])
        BY <3>1, <3>2 DEF Will
      <3>4. proc[p].st # "reaped"
        BY <2>5 DEF TakeUsr1, Live, Starting
      <3>5. proc[p].st \in Live
        BY <2>5 DEF TakeUsr1
      <3>6. Follows(proc[p], new)
        BY <3>2, <3>3, <3>5 DEF Follows
      <3>7. QED
        BY <2>1, <3>1, <3>2, <3>4, <3>6
    <2>6. CASE ChildStart(p)
      <3> DEFINE st  == IF proc[p].st = "inherit" THEN "reset" ELSE "running"
                 new == [proc[p] EXCEPT !.st = st]
      <3>1. proc[p].st \in Starting /\ proc' = [proc EXCEPT ![p] = new]
        BY <2>6 DEF ChildStart
      <3>2. /\ new \in Rec /\ new.sess = proc[p].sess /\ new.role = proc[p].role
            /\ new.st = st /\ new.merged = proc[p].merged
            /\ new.usr1 = proc[p].usr1 /\ new.paused = proc[p].paused
        BY <1>1 DEF Rec, Live, Starting
      <3>3. /\ proc[p].st \in Live /\ proc[p].st # "reaped"
            /\ st \in {"inherit", "reset"} => proc[p].st \in {"inherit", "reset"}
        BY <3>1 DEF Live, Starting
      <3> HIDE DEF new, st
      <3>4. Will(new) = Will(proc[p])
        BY <3>2 DEF Will
      <3>5. Follows(proc[p], new)
        BY <3>2, <3>3, <3>4 DEF Follows
      <3>6. QED
        BY <2>1, <3>1, <3>2, <3>3, <3>5
    <2>7. QED
      BY <2>3, <2>4, <2>5, <2>6
  <1>4. QED
    BY <1>1, <1>2, <1>3, RelabelKeepsTable, SettleKeepsPauses DEF SessionInv, MainInv, mainVars

(* plugin_check_alive leaves the states of plugins.                        *)
LEMMA CheckAliveType ==
    ASSUME plug \in [Plugins -> {"off", "up"} \cup Gone \cup Holding], CheckAlive
    PROVE  plug' \in [Plugins -> {"off", "up"} \cup Gone \cup Holding]
  BY DEF CheckAlive, Gone

(* waitpid in the main loop, and what main does about it.                  *)
LEMMA ReapInv ==
    ASSUME SessionInv, NEW p \in DOMAIN proc, Reap(p)
    PROVE  SessionInv'
  <1> DEFINE procs == [proc EXCEPT ![p].st = "reaped"]
             s     == proc[p].sess
  <1>1. /\ proc[p] \in Rec /\ s \in Sessions
        /\ \A q \in DOMAIN proc : proc[q] \in Rec
        /\ Table(proc, pid) /\ Pauses(proc) /\ MainInv
    <2>1. /\ \A q \in DOMAIN proc : proc[q] \in Rec
          /\ Table(proc, pid) /\ Pauses(proc) /\ MainInv
      BY ElementOfSeq, LenProperties DEF Table, SessionInv
    <2>2. QED
      BY <2>1 DEF Rec
  <1>2. /\ [proc[p] EXCEPT !.st = "reaped"] \in Rec
        /\ [proc[p] EXCEPT !.st = "reaped"].sess = s
        /\ [proc[p] EXCEPT !.st = "reaped"].role = proc[p].role
        /\ [proc[p] EXCEPT !.st = "reaped"].st = "reaped"
    BY <1>1 DEF Rec
  <1>3. /\ procs = [proc EXCEPT ![p] = [@ EXCEPT !.st = "reaped"]]
        /\ DOMAIN procs = DOMAIN proc /\ procs[p].st = "reaped"
    BY <1>2
  <1>4. Relabels(proc, procs) /\ Settles(proc, procs)
    BY <1>1, <1>2, <1>3 DEF Relabels, Settles, Follows, Live, Starting
  <1> HIDE DEF procs
  <1>5. Table(procs, pid) /\ Pauses(procs)
    BY <1>1, <1>4, RelabelKeepsTable, SettleKeepsPauses
  <1>6. Table(proc', pid') /\ Pauses(proc') /\ active' \in [Sessions -> BOOLEAN]
    <2>1. CASE pid[s]["gk"] = p
      <3>1. GkReaped(procs, s, proc[p].st)
        BY <2>1 DEF Reap, procs
      <3>2. CASE proc[p].st = "exited"
        <4>1. /\ proc' = Kill(procs, {pid[s]["logic"]}, OnTerm)
              /\ pid' = pid /\ active' = [active EXCEPT ![s] = FALSE]
          BY <3>1, <3>2 DEF GkReaped
        <4>2. Relabels(procs, proc') /\ Settles(procs, proc')
          BY <4>1, <1>5, SignalRelabels
        <4>3. QED
          BY <1>1, <1>5, <4>1, <4>2, RelabelKeepsTable, SettleKeepsPauses DEF MainInv
      <3>3. CASE proc[p].st # "exited"
        <4>1. Spawn(procs, s, "gk") /\ active' = active
          BY <3>1, <3>3 DEF GkReaped
        <4>2. QED
          BY <1>1, <1>3, <1>5, <2>1, <4>1, SpawnKeepsTable DEF Roles, MainInv
      <3>4. QED
        BY <3>2, <3>3
    <2>2. CASE pid[s]["gk"] # p /\ pid[s]["logic"] = p
      <3>1. LogicReaped(procs, s, proc[p].st)
        BY <2>2 DEF Reap, procs
      <3>2. CASE proc[p].st = "exited" \/ ~active[s]
        BY <1>1, <1>5, <3>1, <3>2 DEF LogicReaped, MainInv
      <3>3. CASE ~(proc[p].st = "exited" \/ ~active[s])
        <4>1. Spawn(procs, s, "logic") /\ active' = active
          BY <3>1, <3>3 DEF LogicReaped
        <4>2. QED
          BY <1>1, <1>3, <1>5, <2>2, <4>1, SpawnKeepsTable DEF Roles, MainInv
      <3>4. QED
        BY <3>2, <3>3
    <2>3. CASE pid[s]["gk"] # p /\ pid[s]["logic"] # p
      <3>1. proc' = procs /\ pid' = pid /\ active' = active
        BY <2>3 DEF Reap, procs
      <3>2. QED
        BY <1>1, <1>5, <3>1 DEF MainInv
    <2>4. QED
      BY <2>1, <2>2, <2>3
  <1>7. /\ running' \in BOOLEAN /\ pc' = "ui" /\ waited' = 0 /\ waited' \in 0..(2 * N)
        /\ plug' \in [Plugins -> {"off", "up"} \cup Gone \cup Holding]
    <2>1. plug' \in [Plugins -> {"off", "up"} \cup Gone \cup Holding]
      BY <1>1, CheckAliveType DEF Reap, MainInv
    <2>2. QED
      BY <1>1, <2>1, SessionAssumption DEF Reap, Scan, MainInv
  <1>8. Collected(proc', pid', waited')
    BY <1>7, SessionAssumption DEF Collected, Sessions
  <1>9. QED
    BY <1>6, <1>7, <1>8 DEF SessionInv, MainInv

(* SIGUSR1 to every logic engine on record.                                *)
LEMMA UiPauseInv ==
    ASSUME SessionInv, UiPause
    PROVE  SessionInv'
  <1> DEFINE Q == {pid[s]["logic"] : s \in Sessions}
  <1>1. /\ \A q \in DOMAIN proc : proc[q] \in Rec
        /\ Table(proc, pid) /\ Pauses(proc) /\ MainInv
    BY ElementOfSeq, LenProperties DEF Table, SessionInv
  <1>2. proc' = Kill(proc, Q, OnUsr1)
    BY DEF UiPause
  <1>3. Relabels(proc, proc')
    BY <1>1, <1>2, SignalRelabels
  <1>4. \A s \in Sessions : 2 * s \in DOMAIN proc
    BY <1>1, LenProperties, SessionAssumption DEF Table, Sessions
  <1>5. ASSUME NEW s \in Sessions, proc[2 * s].st # "reaped"
        PROVE  proc'[2 * s] = OnUsr1(proc[2 * s])
    <2>1. 2 * s \in Q
      <3>1. pid[proc[2 * s].sess]["logic"] = 2 * s /\ proc[2 * s].sess \in Sessions
        BY <1>1, <1>4, <1>5 DEF Table, Pauses, Rec
      <3>2. QED
        BY <3>1
    <2>2. QED
      BY <1>2, <1>4, <2>1 DEF Kill
  <1>6. ASSUME NEW s \in Sessions
        PROVE  /\ proc'[2 * s].role = "logic" /\ proc'[2 * s].st \notin {"inherit", "reset"}
               /\ (proc'[2 * s].st \in {"boot", "running"} /\ ~proc'[2 * s].merged) =>
                     /\ proc[2 * s].st \in {"boot", "running"} /\ ~proc[2 * s].merged
                     /\ Will(proc[2 * s]) = proc[2 * s].paused
                     /\ Will(proc'[2 * s]) = ~proc[2 * s].paused
    <2>1. proc[2 * s] \in Rec /\ proc[2 * s].role = "logic" /\ proc[2 * s].st \notin {"inherit", "reset"}
      BY <1>1, <1>4 DEF Pauses
    <2>2. CASE proc[2 * s].st = "reaped"
      BY <1>3, <1>4, <2>1, <2>2 DEF Relabels
    <2>3. CASE proc[2 * s].st # "reaped"
      <3>1. CASE proc[2 * s].st \in {"boot", "running"}
        <4> DEFINE old == proc[2 * s]
                   new == [old EXCEPT !.usr1 = TRUE, !.merged = @ \/ old.usr1]
        <4>1. proc'[2 * s] = new
          BY <1>5, <2>1, <2>3, <3>1 DEF OnUsr1
        <4>2. /\ new.usr1 = TRUE /\ new.merged = (old.merged \/ old.usr1)
              /\ new.paused = old.paused /\ new.st = old.st /\ new.role = old.role
              /\ old.usr1 \in BOOLEAN /\ old.merged \in BOOLEAN
          BY <2>1 DEF Rec
        <4> HIDE DEF new
        <4>3. new.merged \/ (~old.merged /\ ~old.usr1)
          BY <4>2
        <4>4. Will(new) = ~old.paused /\ (~old.usr1 => Will(old) = old.paused)
          BY <4>2 DEF Will
        <4>5. QED
          BY <2>1, <3>1, <4>1, <4>2, <4>3, <4>4
      <3>2. CASE proc[2 * s].st \notin {"boot", "running"}
        <4>1. proc'[2 * s] = proc[2 * s]
          BY <1>5, <2>1, <2>3, <3>2 DEF OnUsr1
        <4>2. QED
          BY <4>1, <2>1, <3>2
      <3>3. QED
        BY <3>1, <3>2
    <2>4. QED
      BY <2>2, <2>3
  <1>7. ASSUME NEW s \in Sessions, NEW t \in Sessions,
               proc'[2 * s].st \in {"boot", "running"}, ~proc'[2 * s].merged,
               proc'[2 * t].st \in {"boot", "running"}, ~proc'[2 * t].merged
        PROVE  Will(proc'[2 * s]) = Will(proc'[2 * t])
    <2>1. /\ Will(proc[2 * s]) = proc[2 * s].paused /\ Will(proc'[2 * s]) = ~proc[2 * s].paused
          /\ Will(proc[2 * t]) = proc[2 * t].paused /\ Will(proc'[2 * t]) = ~proc[2 * t].paused
      BY <1>6, <1>7
    <2>2. Will(proc[2 * s]) = Will(proc[2 * t])
      BY <1>1, <1>6, <1>7 DEF Pauses
    <2>3. QED
      BY <2>1, <2>2
  <1>8. Pauses(proc')
    BY <1>6, <1>7 DEF Pauses
  <1>9. /\ pid' = pid /\ active' = active /\ running' = running /\ plug' = plug
        /\ pc' = "reap" /\ pc = "ui" /\ waited' = waited
    BY DEF UiPause
  <1>10. QED
    BY <1>1, <1>3, <1>8, <1>9, RelabelKeepsTable DEF SessionInv, MainInv

(* The shutdown: the last signal, and one blocking waitpid after another.  *)
LEMMA KillAllInv ==
    ASSUME SessionInv, KillAll
    PROVE  SessionInv'
  <1>1. Table(proc, pid) /\ Pauses(proc) /\ MainInv
    BY DEF SessionInv
  <1>2. Relabels(proc, proc') /\ Settles(proc, proc')
    BY <1>1, SignalRelabels DEF KillAll
  <1>3. /\ pid' = pid /\ active' = active /\ running' = running /\ plug' = plug
        /\ pc' = "wait" /\ pc = "kill" /\ waited' = waited
    BY DEF KillAll
  <1>4. 0 < 2 * N
    BY SessionAssumption
  <1>5. QED
    BY <1>1, <1>2, <1>3, <1>4, RelabelKeepsTable, SettleKeepsPauses DEF SessionInv, MainInv

LEMMA WaitOneInv ==
    ASSUME SessionInv, WaitOne
    PROVE  SessionInv'
  <1> DEFINE t == waited \div 2 + 1
             r == IF waited % 2 = 0 THEN "gk" ELSE "logic"
             p == pid[t][r]
  <1>1. /\ \A q \in DOMAIN proc : proc[q] \in Rec
        /\ Table(proc, pid) /\ Pauses(proc) /\ MainInv
    BY ElementOfSeq, LenProperties DEF Table, SessionInv
  <1>2. /\ pc = "wait" /\ waited \in 0..(2 * N - 1) /\ waited' = waited + 1
        /\ pid' = pid /\ active' = active /\ running' = running /\ plug' = plug
        /\ pc' = IF waited + 1 = 2 * N THEN "cleanup" ELSE "wait"
    BY <1>1, SessionAssumption DEF WaitOne, MainInv
  <1>3. t \in Sessions /\ r \in Roles
    BY <1>2, SessionAssumption DEF Sessions, Roles
  <1>4. /\ p \in DOMAIN proc => proc[p].st \notin Live /\ proc' = [proc EXCEPT ![p].st = "reaped"]
        /\ p \notin DOMAIN proc => proc' = proc
    BY DEF WaitOne, Awaited
  <1>5. \A s \in Sessions : /\ 2 * s - 2 < waited + 1 => 2 * s - 2 < waited \/ (s = t /\ r = "gk")
                            /\ 2 * s - 1 < waited + 1 => 2 * s - 1 < waited \/ (s = t /\ r = "logic")
    BY <1>2, SessionAssumption DEF Sessions
  <1> HIDE DEF t, r
  <1>6. Relabels(proc, proc') /\ Settles(proc, proc') /\ (p \in DOMAIN proc => proc'[p].st = "reaped")
    <2>1. CASE p \in DOMAIN proc
      <3>1. /\ [proc[p] EXCEPT !.st = "reaped"] \in Rec
            /\ [proc[p] EXCEPT !.st = "reaped"].sess = proc[p].sess
            /\ [proc[p] EXCEPT !.st = "reaped"].role = proc[p].role
            /\ [proc[p] EXCEPT !.st = "reaped"].st = "reaped"
        BY <1>1, <2>1 DEF Rec
      <3>2. proc' = [proc EXCEPT ![p] = [@ EXCEPT !.st = "reaped"]]
        BY <1>4, <2>1
      <3>3. QED
        BY <1>1, <2>1, <3>1, <3>2 DEF Relabels, Settles, Follows, Live, Starting
    <2>2. CASE p \notin DOMAIN proc
      <3>1. proc' = proc /\ proc = [q \in DOMAIN proc |-> proc[q]]
        BY <1>1, <1>4, <2>2, LenProperties DEF Table
      <3>2. QED
        BY <1>1, <2>2, <3>1 DEF Relabels, Settles, Follows
    <2>3. QED
      BY <2>1, <2>2
  <1>7. Table(proc', pid) /\ Pauses(proc') /\ DOMAIN proc' = DOMAIN proc /\ Collected(proc', pid, waited)
    BY <1>1, <1>6, RelabelKeepsTable, SettleKeepsPauses DEF MainInv
  <1>8. Collected(proc', pid, waited + 1)
    <2>1. ASSUME NEW s \in Sessions, 2 * s - 2 < waited + 1, pid[s]["gk"] \in DOMAIN proc'
          PROVE  proc'[pid[s]["gk"]].st = "reaped"
      BY <1>5, <1>6, <1>7, <2>1 DEF Collected
    <2>2. ASSUME NEW s \in Sessions, 2 * s - 1 < waited + 1, pid[s]["logic"] \in DOMAIN proc'
          PROVE  proc'[pid[s]["logic"]].st = "reaped"
      BY <1>5, <1>6, <1>7, <2>2 DEF Collected
    <2>3. QED
      BY <2>1, <2>2 DEF Collected
  <1>9. /\ waited + 1 \in 0..(2 * N)
        /\ pc' \in {"wait", "cleanup"}
        /\ pc' = "wait" => waited + 1 < 2 * N
        /\ pc' = "cleanup" => waited + 1 = 2 * N
    BY <1>2, SessionAssumption
  <1>10. QED
    BY <1>1, <1>2, <1>7, <1>8, <1>9 DEF SessionInv, MainInv

LEMMA CtrlCInv ==
    ASSUME SessionInv, CtrlC
    PROVE  SessionInv'
  <1>1. Table(proc, pid) /\ Pauses(proc) /\ MainInv
    BY DEF SessionInv
  <1>2. Relabels(proc, proc') /\ Settles(proc, proc')
    BY <1>1, SignalRelabels DEF CtrlC
  <1>3. pid' = pid /\ active' = active /\ running' = FALSE /\ pc' = pc /\ waited' = waited /\ plug' = plug
    BY DEF CtrlC
  <1>4. QED
    BY <1>1, <1>2, <1>3, RelabelKeepsTable, SettleKeepsPauses DEF SessionInv, MainInv

(* Steps that touch no process of a session.                               *)
LEMMA MainOnlyInv ==
    ASSUME SessionInv,
           \/ NothingToReap \/ LoopEnds \/ UiNone \/ UiQuit \/ UiEditor \/ EditorEnds \/ Finish \/ Terminate
           \/ \E q \in Plugins : UiPipe(q)
    PROVE  SessionInv'
  <1>1. proc' = proc /\ pid' = pid /\ active' = active /\ waited' = waited
    BY DEF NothingToReap, LoopEnds, UiNone, UiQuit, UiEditor, EditorEnds, Finish, Terminate, UiPipe
  <1>2. plug' \in [Plugins -> {"off", "up"} \cup Gone \cup Holding]
    BY CheckAliveType DEF SessionInv, MainInv, NothingToReap, LoopEnds, UiNone, UiQuit, UiEditor, EditorEnds,
                          Finish, Terminate, UiPipe
  <1>3. running' \in BOOLEAN
    BY DEF SessionInv, MainInv, NothingToReap, Scan, LoopEnds, UiNone, UiQuit, UiEditor, EditorEnds,
           Finish, Terminate, UiPipe
  <1>4. /\ pc' \in {"reap", "ui", "editor", "kill", "wait", "cleanup"} \cup Ended
        /\ pc' \in {"reap", "ui", "editor", "kill"} => waited = 0
        /\ pc' = "wait" => waited < 2 * N
        /\ pc' \in {"cleanup", "done"} => waited = 2 * N
        /\ pc' = "done" => \A q \in Plugins : plug'[q] = "off"
    BY DEF SessionInv, MainInv, NothingToReap, Scan, LoopEnds, UiNone, UiQuit, UiEditor, EditorEnds,
           Finish, Terminate, UiPipe, Ended
  <1>5. QED
    BY <1>1, <1>2, <1>3, <1>4 DEF SessionInv, MainInv

(* Steps of a plugin, and of main with one.                                *)
LEMMA PluginInv ==
    ASSUME SessionInv, NEW q \in Plugins,
           \/ UiDisable(q) \/ UiEnable(q) \/ UiBlocks(q) \/ CleanupOne(q)
           \/ PluginReads(q) \/ PluginExits(q)
    PROVE  SessionInv'
  <1>1. proc' = proc /\ pid' = pid /\ active' = active /\ waited' = waited /\ running' = running
    BY DEF UiDisable, UiEnable, UiBlocks, CleanupOne, PluginReads, PluginExits, mainVars
  <1>2. MainInv
    BY DEF SessionInv
  <1>3. \/ plug' = plug
        \/ \E st \in {"off", "up"} \cup Gone \cup Holding : plug' = [plug EXCEPT ![q] = st]
    BY DEF UiDisable, UiEnable, UiBlocks, CleanupOne, PluginReads, PluginExits, Stop, Gone, Holding
  <1>4. plug' \in [Plugins -> {"off", "up"} \cup Gone \cup Holding]
    BY <1>2, <1>3 DEF MainInv
  <1>5. pc' = "killed" \/ (pc' = pc /\ pc # "done") \/ (pc' = "reap" /\ pc = "ui")
    <2>1. CASE UiDisable(q) \/ UiEnable(q)
      BY <2>1 DEF UiDisable, UiEnable, Stop
    <2>2. CASE CleanupOne(q) \/ UiBlocks(q)
      BY <2>2 DEF CleanupOne, Stop, UiBlocks, mainVars
    <2>3. CASE PluginExits(q)
      BY <2>3 DEF PluginExits, Ended
    <2>4. CASE PluginReads(q)
      BY <1>2, <2>4 DEF PluginReads, mainVars, MainInv
    <2>5. QED
      BY <2>1, <2>2, <2>3, <2>4
  <1>6. QED
    BY <1>1, <1>2, <1>4, <1>5 DEF SessionInv, MainInv, Ended

LEMMA NextInv == SessionInv /\ [Next]_vars => SessionInv'
  <1> SUFFICES ASSUME SessionInv, [Next]_vars PROVE SessionInv'
    OBVIOUS
  <1>1. CASE UNCHANGED vars
    BY <1>1 DEF SessionInv, MainInv, vars, mainVars
  <1>2. CASE Next
    BY <1>2, ChildInv, ReapInv, UiPauseInv, KillAllInv, WaitOneInv, CtrlCInv, MainOnlyInv, PluginInv
       DEF Next, Main, Start
  <1>3. QED
    BY <1>1, <1>2

LEMMA Invariance == Spec => []SessionInv
  BY InitInv, NextInv, PTL DEF Spec

-----------------------------------------------------------------------------
(* The theorems.                                                           *)

(* However children die, are collected and are replaced by main.c, a       *)
(* target has at most one live gatekeeper and one live logic engine: every *)
(* live process of a role is the one main has on record for it.            *)
THEOREM OneIncarnation == Spec => []SingleIncarnation
  <1>1. SessionInv => SingleIncarnation
    <2> SUFFICES ASSUME SessionInv PROVE SingleIncarnation
      OBVIOUS
    <2>1. TypeOK
      BY DEF TypeOK, SessionInv, Table, MainInv, Rec
    <2>2. ASSUME NEW s \in Sessions, NEW r \in Roles
          PROVE  Cardinality(Alive(s, r)) <= 1
      <3>1. Alive(s, r) \subseteq {pid[s][r]}
        BY DEF SessionInv, Table, Alive, Live, Starting
      <3>2. IsFiniteSet({pid[s][r]}) /\ Cardinality({pid[s][r]}) = 1
        BY FS_Singleton
      <3>3. QED
        BY <3>1, <3>2, FS_Subset
    <2>3. QED
      BY <2>1, <2>2 DEF SingleIncarnation
  <1>2. QED
    BY <1>1, Invariance, PTL

(* When main returns, every process it ever forked has been collected: the *)
(* last loop of main.c waits only for the pids on record, and that is      *)
(* enough because no other process is uncollected; and every plugin that   *)
(* plugin.c started has been stopped.                                      *)
THEOREM NobodyLeft == Spec => []NoneLeft
  <1>1. SessionInv => NoneLeft
    <2> SUFFICES ASSUME SessionInv, pc = "done" PROVE NoneLeft
      BY DEF NoneLeft
    <2>1. ASSUME NEW p \in DOMAIN proc
          PROVE  proc[p].st = "reaped"
      <3>1. proc[p] \in Rec
        BY ElementOfSeq, LenProperties DEF SessionInv, Table
      <3>2. proc[p].sess \in 1..N /\ proc[p].role \in {"gk", "logic"}
        BY <3>1 DEF Rec, Sessions, Roles
      <3>3. 2 * proc[p].sess - 2 < 2 * N /\ 2 * proc[p].sess - 1 < 2 * N /\ waited = 2 * N
        BY <3>2, SessionAssumption DEF SessionInv, MainInv
      <3>4. QED
        BY <3>2, <3>3 DEF SessionInv, Table, MainInv, Collected, Sessions
    <2>2. QED
      BY <2>1 DEF NoneLeft, SessionInv, MainInv
  <1>2. QED
    BY <1>1, Invariance, PTL

(* The logic engines forked at the start of main.c that have taken all     *)
(* SIGUSR1 sent to them, and of which none was lost while another was      *)
(* pending, agree on g_paused, whatever the signal found them doing: it    *)
(* kills one that has no handler yet, and toggles all the others.          *)
THEOREM PausedTogether == Spec => []PauseTogether
  <1>1. SessionInv => PauseTogether
    BY DEF SessionInv, Pauses, PauseTogether, Settled, Will
  <1>2. QED
    BY <1>1, Invariance, PTL

-----------------------------------------------------------------------------
(***************************************************************************)
(* Proofs about the route graph for every size of the tables, every number *)
(* of TTLs and every sequence of snapshots: GraphSound and                 *)
(* RoutesReachDestination.                                                 *)
(*                                                                         *)
(* GraphSound needs to know in which slot an id is (TableOK).  That routes *)
(* reach the destination is inductive only together with HasDestination:   *)
(* a node added before its destination had room would have no path, and    *)
(* would get none later.                                                   *)
(***************************************************************************)

\* what a slot holds
NodeSet == [id : Nat, addr : Target \cup Router \cup {""}, target : Target \cup {""}, ttl : 0..MaxHops, dest : BOOLEAN]

Ttls  == 1..(MaxHops - 1)
Graph == [nodes : [Slots -> NodeSet], nextId : Nat, id : Nat, ids : [Ttls -> Seq(Nat)]]

(* The table: the ids up to the next are those of its nodes, each in the   *)
(* slot that its id names, and no two nodes are of one address and target. *)
TableOK(ns, next) ==
    /\ ns \in [Slots -> NodeSet]
    /\ next \in Nat /\ next > 0 /\ next <= MaxNodes + 1
    /\ \A s \in Slots : ns[s].id # 0 => ns[s].id \in 1..(next - 1) /\ ns[s].id % MaxNodes = s
    /\ \A k \in 1..(next - 1) : ns[k % MaxNodes].id = k
    /\ \A r, s \in Slots : r # s /\ ns[r].id # 0 /\ ns[s].id # 0 =>
          ns[r].addr # ns[s].addr \/ ns[r].target # ns[s].target

\* an id of a node for an address and a target
IsNode(ns, id, addr, target) ==
    \E s \in Slots : ns[s].id = id /\ id # 0 /\ ns[s].addr = addr /\ ns[s].target = target

\* the nodes that are there remain, but for their ttl and dest
Keeps(ns, new) ==
    \A s \in Slots : ns[s].id # 0 => /\ new[s].id = ns[s].id /\ new[s].addr = ns[s].addr
                                     /\ new[s].target = ns[s].target

(* What the assumption says of the sizes.                                  *)
LEMMA Bounds == MaxNodes \in Nat /\ MaxNodes > 0 /\ MaxHops \in Nat /\ MaxHops >= 2
  BY TopologyAssumption

(* The slot of an id, without the remainder.                               *)
LEMMA SlotOf ==
    ASSUME NEW k \in 1..MaxNodes
    PROVE  k % MaxNodes \in Slots /\ k % MaxNodes = IF k = MaxNodes THEN 0 ELSE k
  <1>1. MaxNodes \in Nat /\ MaxNodes > 0 /\ k \in Nat /\ k > 0 /\ k <= MaxNodes
    BY Bounds
  <1>2. CASE k = MaxNodes
    <2>1. MaxNodes % MaxNodes = 0
      BY <1>1, SMT
    <2>2. QED
      BY <1>1, <1>2, <2>1 DEF Slots
  <1>3. CASE k < MaxNodes
    <2>1. k % MaxNodes = k
      BY <1>1, <1>3, SMT
    <2>2. QED
      BY <1>1, <1>3, <2>1 DEF Slots
  <1>4. QED
    BY <1>1, <1>2, <1>3

(* Different ids have different slots.                                     *)
LEMMA SlotsDiffer ==
    ASSUME NEW k \in 1..MaxNodes, NEW j \in 1..MaxNodes, k # j
    PROVE  k % MaxNodes # j % MaxNodes
  <1>1. k % MaxNodes = (IF k = MaxNodes THEN 0 ELSE k) /\ j % MaxNodes = (IF j = MaxNodes THEN 0 ELSE j)
    BY SlotOf
  <1>2. QED
    BY <1>1, Bounds

(* As many nodes as ids were given: the table is full when the next is     *)
(* MaxNodes + 1.                                                           *)
LEMMA Counted ==
    ASSUME NEW ns, NEW next, TableOK(ns, next)
    PROVE  NodeCount(ns) = next - 1 /\ DOMAIN ns = Slots
  <1> DEFINE K == 1..(next - 1)
             U == {s \in Slots : ns[s].id # 0}
             f == [k \in K |-> k % MaxNodes]
  <1>1. /\ next \in Nat /\ next > 0 /\ next <= MaxNodes + 1 /\ ns \in [Slots -> NodeSet]
        /\ \A s \in Slots : ns[s].id # 0 => ns[s].id \in K /\ ns[s].id % MaxNodes = s
        /\ \A k \in K : ns[k % MaxNodes].id = k
    BY DEF TableOK
  <1>2. \A k \in K : k \in 1..MaxNodes /\ k # 0
    BY <1>1, Bounds
  <1>3. \A k \in K : k % MaxNodes \in U
    BY <1>1, <1>2, SlotOf
  <1>4. f \in [K -> U]
    BY <1>3
  <1>5. \A a, b \in K : f[a] = f[b] => a = b
    BY <1>2, SlotsDiffer
  <1>6. \A s \in U : \E k \in K : f[k] = s
    BY <1>1
  <1>7. ExistsBijection(K, U)
    <2> HIDE DEF K, U, f
    <2>1. f \in Bijection(K, U)
      BY <1>4, <1>5, <1>6, Fun_IsBij
    <2>2. QED
      BY <2>1 DEF ExistsBijection
  <1>8. IsFiniteSet(K) /\ Cardinality(K) = next - 1
    BY <1>1, FS_Interval
  <1>9. Cardinality(U) = Cardinality(K)
    <2> HIDE DEF K, U, f
    <2>1. QED
      BY <1>7, <1>8, FS_Bijection
  <1>10. DOMAIN ns = Slots
    BY <1>1
  <1>11. QED
    BY <1>8, <1>9, <1>10 DEF NodeCount

(* What an upsert does to the table and returns.                           *)
Upserted(g, r, addr, target) ==
    /\ r \in Graph /\ TableOK(r.nodes, r.nextId) /\ r.ids = g.ids
    /\ Keeps(g.nodes, r.nodes)
    /\ r.id # 0 => IsNode(r.nodes, r.id, addr, target)
    /\ r.id = 0 => g.nextId = MaxNodes + 1 /\ \A k \in Nat : ~IsNode(r.nodes, k, addr, target)
    /\ \A s \in Slots : r.nodes[s].id # 0 =>
          r.nodes[s].id = g.nodes[s].id \/ (r.nodes[s].id = r.id /\ r.nodes[s].target = target)
    /\ g.nextId = MaxNodes + 1 => /\ r.nextId = MaxNodes + 1
                                  /\ \A s \in Slots : r.nodes[s].id = g.nodes[s].id

(* nsr_topology_upsert_node finds the node, or gives it a slot that is     *)
(* free, or finds the table full.                                          *)
LEMMA UpsertOne ==
    ASSUME NEW g \in Graph, TableOK(g.nodes, g.nextId), NEW addr \in Target \cup Router, NEW target \in Target,
           NEW ttl \in 0..MaxHops, NEW dest \in BOOLEAN
    PROVE  Upserted(g, upsert_node(g, addr, ttl, target, dest), addr, target)
  <1> DEFINE ns    == g.nodes
             found == FindSlot(ns, addr, target)
             r     == upsert_node(g, addr, ttl, target, dest)
  <1> SUFFICES Upserted(g, r, addr, target)
    OBVIOUS
  <1>1. /\ ns \in [Slots -> NodeSet] /\ DOMAIN ns = Slots /\ g.nextId \in Nat /\ g.nextId > 0
        /\ g.nextId <= MaxNodes + 1 /\ NodeCount(ns) = g.nextId - 1 /\ g.ids \in [Ttls -> Seq(Nat)]
    BY Counted DEF TableOK, Graph
  <1>2. CASE found # {}
    <2>1. found \subseteq Nat /\ found \subseteq Slots
      BY <1>1, Bounds DEF FindSlot, Slots
    <2>2. \E s \in found : \A q \in found : s <= q
      <3> HIDE DEF found
      <3>1. QED
        BY <1>2, <2>1, NatSetLeast
    <2> DEFINE t == CHOOSE s \in found : \A q \in found : s <= q
    <2>3. t \in found
      BY <2>2, Zenon
    <2>4. t \in Slots /\ ns[t].id # 0 /\ ns[t].addr = addr /\ ns[t].target = target
      BY <2>1, <2>3 DEF FindSlot
    <2>5. r = [g EXCEPT !.nodes[t].ttl = ttl, !.nodes[t].dest = dest, !.id = g.nodes[t].id]
      BY <1>2 DEF upsert_node
    <2> HIDE DEF t, r
    <2> DEFINE node == [[ns[t] EXCEPT !.ttl = ttl] EXCEPT !.dest = dest]
    <2>6. /\ r.nextId = g.nextId /\ r.ids = g.ids /\ r.id = ns[t].id
          /\ r.nodes = [ns EXCEPT ![t] = node]
          /\ r = [nodes |-> r.nodes, nextId |-> r.nextId, id |-> r.id, ids |-> r.ids]
      BY <1>1, <2>4, <2>5 DEF Graph
    <2>7. node \in NodeSet /\ node.id = ns[t].id /\ node.addr = ns[t].addr /\ node.target = ns[t].target
      BY <1>1, <2>4 DEF NodeSet
    <2> HIDE DEF node
    <2>8. \A s \in Slots : /\ r.nodes[s].id = ns[s].id /\ r.nodes[s].addr = ns[s].addr
                           /\ r.nodes[s].target = ns[s].target
      BY <1>1, <2>4, <2>6, <2>7
    <2>9. r.nodes \in [Slots -> NodeSet]
      BY <1>1, <2>6, <2>7
    <2>10. ns[t].id \in Nat
      BY <1>1, <2>4 DEF NodeSet
    <2>11. r \in Graph
      BY <1>1, <2>6, <2>9, <2>10 DEF Graph
    <2>12. TableOK(r.nodes, r.nextId)
      <3>1. \A k \in 1..(g.nextId - 1) : k % MaxNodes \in Slots
        BY <1>1, SlotOf, Bounds
      <3>2. QED
        BY <2>6, <2>8, <2>9, <3>1 DEF TableOK
    <2>13. r.id # 0 /\ IsNode(r.nodes, r.id, addr, target)
      BY <2>4, <2>6, <2>8 DEF IsNode
    <2>14. QED
      BY <2>6, <2>8, <2>11, <2>12, <2>13 DEF Upserted, Keeps
  <1>3. CASE found = {} /\ NodeCount(ns) >= MaxNodes
    <2>1. r = [g EXCEPT !.id = 0]
      BY <1>3 DEF upsert_node
    <2>2. g.nextId = MaxNodes + 1
      BY <1>1, <1>3, Bounds
    <2>3. r \in Graph /\ r.nodes = ns /\ r.nextId = g.nextId /\ r.ids = g.ids /\ r.id = 0
      BY <2>1 DEF Graph
    <2>4. \A k \in Nat : ~IsNode(ns, k, addr, target)
      BY <1>1, <1>3 DEF IsNode, FindSlot
    <2> HIDE DEF r
    <2>5. QED
      BY <2>2, <2>3, <2>4 DEF Upserted, Keeps
  <1>4. CASE found = {} /\ ~(NodeCount(ns) >= MaxNodes)
    <2> DEFINE n == g.nextId
               t == n % MaxNodes
               node == [id |-> n, addr |-> addr, target |-> target, ttl |-> ttl, dest |-> dest]
    <2>1. n \in 1..MaxNodes /\ n # 0 /\ n <= MaxNodes
      BY <1>1, <1>4, Bounds
    <2>2. t \in Slots
      BY <2>1, SlotOf
    <2>3. r = [g EXCEPT !.nodes[g.nextId % MaxNodes] = node, !.nextId = g.nextId + 1, !.id = g.nextId]
      BY <1>4 DEF upsert_node
    <2>4. node \in NodeSet /\ node.id = n /\ node.addr = addr /\ node.target = target
      BY <1>1 DEF NodeSet
    <2> HIDE DEF node, r
    <2>5. /\ r.nextId = n + 1 /\ r.ids = g.ids /\ r.id = n /\ r.nodes = [ns EXCEPT ![t] = node] /\ r \in Graph
      <3>1. /\ r.nextId = n + 1 /\ r.ids = g.ids /\ r.id = n /\ r.nodes = [ns EXCEPT ![t] = node]
            /\ r = [nodes |-> r.nodes, nextId |-> r.nextId, id |-> r.id, ids |-> r.ids]
        BY <2>3 DEF Graph
      <3>2. [ns EXCEPT ![t] = node] \in [Slots -> NodeSet] /\ n + 1 \in Nat /\ n \in Nat
        BY <1>1, <2>2, <2>4
      <3>3. QED
        BY <1>1, <3>1, <3>2 DEF Graph
    <2>6. ns[t].id = 0
      <3>1. SUFFICES ASSUME ns[t].id # 0 PROVE FALSE
        OBVIOUS
      <3>2. ns[t].id \in 1..(n - 1) /\ ns[t].id % MaxNodes = t
        BY <2>2, <3>1 DEF TableOK
      <3>3. ns[t].id \in 1..MaxNodes /\ ns[t].id # n
        BY <2>1, <3>2, Bounds
      <3>4. QED
        BY <2>1, <3>2, <3>3, SlotsDiffer
    <2>7. r.nodes \in [Slots -> NodeSet] /\ r.nodes[t] = node /\ \A s \in Slots : s # t => r.nodes[s] = ns[s]
      BY <1>1, <2>2, <2>4, <2>5
    <2>8. \A s \in Slots : ns[s].id # 0 => ~(ns[s].addr = addr /\ ns[s].target = target)
      BY <1>1, <1>4 DEF FindSlot
    <2> HIDE DEF t
    <2>9. TableOK(r.nodes, n + 1)
      <3>1. \A s \in Slots : ns[s].id # 0 => ns[s].id \in 1..(n - 1) /\ ns[s].id % MaxNodes = s
        BY DEF TableOK
      <3>2. ASSUME NEW s \in Slots, r.nodes[s].id # 0
            PROVE  r.nodes[s].id \in 1..n /\ r.nodes[s].id % MaxNodes = s
        <4>1. CASE s = t
          BY <2>1, <2>4, <2>7, <4>1 DEF t
        <4>2. CASE s # t
          BY <2>1, <2>7, <3>1, <3>2, <4>2
        <4>3. QED
          BY <4>1, <4>2
      <3>3. ASSUME NEW k \in 1..n PROVE r.nodes[k % MaxNodes].id = k
        <4>1. CASE k = n
          BY <2>4, <2>7, <4>1 DEF t
        <4>2. CASE k # n
          <5>1. k \in 1..(n - 1) /\ k \in 1..MaxNodes
            BY <2>1, <4>2, Bounds
          <5>2. k % MaxNodes # t /\ k % MaxNodes \in Slots
            BY <2>1, <4>2, <5>1, SlotsDiffer, SlotOf DEF t
          <5>3. ns[k % MaxNodes].id = k
            BY <5>1 DEF TableOK
          <5>4. QED
            BY <2>7, <5>2, <5>3
        <4>3. QED
          BY <4>1, <4>2
      <3>4. ASSUME NEW q \in Slots, NEW s \in Slots, q # s, r.nodes[q].id # 0, r.nodes[s].id # 0
            PROVE  r.nodes[q].addr # r.nodes[s].addr \/ r.nodes[q].target # r.nodes[s].target
        <4>1. CASE q = t
          BY <2>4, <2>7, <2>8, <3>4, <4>1
        <4>2. CASE s = t
          BY <2>4, <2>7, <2>8, <3>4, <4>2
        <4>3. CASE q # t /\ s # t
          BY <2>7, <3>4, <4>3 DEF TableOK
        <4>4. QED
          BY <4>1, <4>2, <4>3
      <3>5. n + 1 \in Nat /\ n + 1 > 0 /\ n + 1 <= MaxNodes + 1 /\ (n + 1) - 1 = n
        BY <1>1, <2>1, Bounds
      <3> HIDE DEF n
      <3>6. QED
        BY <2>7, <3>2, <3>3, <3>4, <3>5 DEF TableOK
    <2>10. IsNode(r.nodes, r.id, addr, target)
      BY <2>1, <2>2, <2>4, <2>5, <2>7 DEF IsNode
    <2>11. Keeps(ns, r.nodes)
      BY <2>6, <2>7 DEF Keeps
    <2>12. \A s \in Slots : r.nodes[s].id # 0 =>
              r.nodes[s].id = ns[s].id \/ (r.nodes[s].id = r.id /\ r.nodes[s].target = target)
      BY <2>4, <2>5, <2>7
    <2>13. n # MaxNodes + 1
      BY <1>1, <2>1, Bounds
    <2>14. QED
      BY <2>1, <2>5, <2>9, <2>10, <2>11, <2>12, <2>13 DEF Upserted
  <1>5. QED
    BY <1>2, <1>3, <1>4

-----------------------------------------------------------------------------
(* The hop loop, of an update that found the nodes ns and whose destination*)
(* has the id d, or 0 if it found no room.                                 *)

\* an id of a node of a target
Of(ns, id, target) == \E s \in Slots : ns[s].id = id /\ id # 0 /\ ns[s].target = target

\* a node is on a TTL whose primary address is in the table
OnRoute(ids, id) == \E i \in Ttls : \E k \in 1..Len(ids[i]) : ids[i][k] = id /\ ids[i][1] # 0

Loop(ns, d, target, g) ==
    /\ g \in Graph /\ TableOK(g.nodes, g.nextId)
    /\ Keeps(ns, g.nodes)
    /\ \A i \in Ttls : \A k \in 1..Len(g.ids[i]) : g.ids[i][k] # 0 => Of(g.nodes, g.ids[i][k], target)
    /\ \A i \in Ttls : g.ids[i] # <<>> /\ g.ids[i][1] = 0 => g.nextId = MaxNodes + 1
    /\ \A s \in Slots : g.nodes[s].id # 0 =>
          \/ g.nodes[s].id = ns[s].id
          \/ g.nodes[s].target = target /\ (g.nodes[s].id = d \/ OnRoute(g.ids, g.nodes[s].id))
    /\ d # 0 => IsNode(g.nodes, d, target, target)
    /\ d = 0 => g.nextId = MaxNodes + 1 /\ \A k \in Nat : ~IsNode(g.nodes, k, target, target)

(* Nodes that remain are still nodes of their address and target.          *)
LEMMA KeepsNodes ==
    ASSUME NEW ns, NEW new, Keeps(ns, new)
    PROVE  /\ \A id, t : Of(ns, id, t) => Of(new, id, t)
           /\ \A id, a, t : IsNode(ns, id, a, t) => IsNode(new, id, a, t)
  BY DEF Keeps, Of, IsNode

(* What two steps keep, both together keep.                                *)
LEMMA KeepsTransitive ==
    ASSUME NEW a, NEW b, NEW c, Keeps(a, b), Keeps(b, c)
    PROVE  Keeps(a, c)
  BY DEF Keeps

(* One address of a hop.                                                   *)
LEMMA AddrStep ==
    ASSUME NEW ns, NEW d \in Nat, NEW target \in Target, NEW g, Loop(ns, d, target, g),
           NEW i \in Ttls, NEW addr \in Target \cup Router
    PROVE  Loop(ns, d, target, UpsertAddr(g, target, i, addr))
  <1> DEFINE n == upsert_node(g, addr, i, target, FALSE)
             r == UpsertAddr(g, target, i, addr)
  <1> SUFFICES Loop(ns, d, target, r)
    OBVIOUS
  <1>1. g \in Graph /\ TableOK(g.nodes, g.nextId) /\ i \in 0..MaxHops /\ g.ids \in [Ttls -> Seq(Nat)]
    BY Bounds DEF Loop, Ttls, Graph
  <1>2. Upserted(g, n, addr, target)
    BY <1>1, UpsertOne
  <1>3. r = [n EXCEPT !.ids[i] = Append(n.ids[i], n.id)]
    BY DEF UpsertAddr
  <1> HIDE DEF n, r
  <1>4. /\ n \in Graph /\ TableOK(n.nodes, n.nextId) /\ n.ids = g.ids /\ Keeps(g.nodes, n.nodes)
        /\ n.id \in Nat /\ (n.id # 0 => Of(n.nodes, n.id, target))
    BY <1>2 DEF Upserted, Graph, IsNode, Of
  <1>5. /\ r.nodes = n.nodes /\ r.nextId = n.nextId /\ r.id = n.id
        /\ r.ids = [g.ids EXCEPT ![i] = Append(g.ids[i], n.id)]
        /\ r = [nodes |-> r.nodes, nextId |-> r.nextId, id |-> r.id, ids |-> r.ids]
    BY <1>1, <1>3, <1>4 DEF Graph
  <1>6. g.ids[i] \in Seq(Nat) /\ Len(g.ids[i]) \in Nat
    BY <1>1, LenProperties
  <1> DEFINE L == Len(g.ids[i])
             A == Append(g.ids[i], n.id)
  <1>7. /\ A \in Seq(Nat) /\ Len(A) = L + 1 /\ A[L + 1] = n.id /\ \A k \in 1..L : A[k] = g.ids[i][k]
    BY <1>4, <1>6, AppendProperties
  <1>8. r.ids[i] = A /\ \A j \in Ttls : j # i => r.ids[j] = g.ids[j]
    BY <1>1, <1>5
  <1> HIDE DEF A
  <1>9. r.ids \in [Ttls -> Seq(Nat)]
    BY <1>1, <1>5, <1>7 DEF A
  <1>10. r \in Graph
    BY <1>4, <1>5, <1>9 DEF Graph
  <1>11. Keeps(ns, r.nodes)
    BY <1>4, <1>5, KeepsTransitive DEF Loop
  <1>12. ASSUME NEW j \in Ttls, NEW k \in 1..Len(r.ids[j]), r.ids[j][k] # 0
         PROVE  Of(r.nodes, r.ids[j][k], target)
    <2>1. CASE k \in 1..Len(g.ids[j]) /\ r.ids[j][k] = g.ids[j][k]
      <3>1. Of(g.nodes, g.ids[j][k], target)
        BY <1>12, <2>1 DEF Loop
      <3>2. QED
        BY <1>4, <1>5, <2>1, <3>1, KeepsNodes
    <2>2. CASE j = i /\ k = L + 1
      BY <1>4, <1>5, <1>7, <1>8, <1>12, <2>2
    <2>3. QED
      <3>1. CASE j # i
        BY <1>8, <2>1, <3>1
      <3>2. CASE j = i
        <4>1. k \in 1..L \/ k = L + 1
          BY <1>6, <1>7, <1>8, <3>2
        <4>2. QED
          BY <1>7, <1>8, <2>1, <2>2, <3>2, <4>1
      <3>3. QED
        BY <3>1, <3>2
  <1>13. r.ids[i][1] = IF g.ids[i] = <<>> THEN n.id ELSE g.ids[i][1]
    <2>1. CASE g.ids[i] = <<>>
      <3>1. L + 1 = 1
        BY <2>1
      <3>2. QED
        BY <1>7, <1>8, <2>1, <3>1, Zenon
    <2>2. CASE g.ids[i] # <<>>
      <3>1. 1 \in 1..L
        BY <1>6, <2>2, EmptySeq
      <3>2. QED
        BY <1>7, <1>8, <2>2, <3>1, Zenon
    <2>3. QED
      BY <2>1, <2>2
  <1>14. ASSUME NEW id, OnRoute(g.ids, id) PROVE OnRoute(r.ids, id)
    <2>0. PICK j \in Ttls : \E k \in 1..Len(g.ids[j]) : g.ids[j][k] = id /\ g.ids[j][1] # 0
      BY <1>14 DEF OnRoute
    <2>1. PICK k \in 1..Len(g.ids[j]) : g.ids[j][k] = id /\ g.ids[j][1] # 0
      BY <2>0
    <2>2. CASE j # i
      BY <1>8, <2>1, <2>2 DEF OnRoute
    <2>3. CASE j = i
      <3>1. k \in 1..L /\ k \in 1..Len(r.ids[i]) /\ g.ids[i] # <<>>
        BY <1>6, <1>7, <1>8, <2>3
      <3>2. r.ids[i][k] = id /\ r.ids[i][1] # 0
        BY <1>7, <1>8, <1>13, <2>1, <2>3, <3>1
      <3>3. QED
        BY <3>1, <3>2 DEF OnRoute
    <2>4. QED
      BY <2>2, <2>3
  <1>15. ASSUME NEW j \in Ttls, r.ids[j] # <<>>, r.ids[j][1] = 0 PROVE r.nextId = MaxNodes + 1
    <2>1. CASE j = i /\ g.ids[i] = <<>>
      BY <1>2, <1>5, <1>13, <1>15, <2>1 DEF Upserted
    <2>2. CASE ~(j = i /\ g.ids[i] = <<>>)
      <3>1. g.ids[j] # <<>> /\ g.ids[j][1] = 0
        BY <1>8, <1>13, <1>15, <2>2
      <3>2. g.nextId = MaxNodes + 1
        BY <3>1 DEF Loop
      <3>3. QED
        BY <1>2, <1>5, <3>2 DEF Upserted
    <2>3. QED
      BY <2>1, <2>2
  <1>16. ASSUME NEW s \in Slots, r.nodes[s].id # 0
         PROVE  \/ r.nodes[s].id = ns[s].id
                \/ r.nodes[s].target = target /\ (r.nodes[s].id = d \/ OnRoute(r.ids, r.nodes[s].id))
    <2>1. CASE r.nodes[s].id = g.nodes[s].id
      <3>1. \/ g.nodes[s].id = ns[s].id
            \/ g.nodes[s].target = target /\ (g.nodes[s].id = d \/ OnRoute(g.ids, g.nodes[s].id))
        BY <1>16, <2>1 DEF Loop
      <3>2. r.nodes[s].target = g.nodes[s].target
        BY <1>4, <1>5, <1>16, <2>1 DEF Keeps
      <3>3. QED
        BY <1>14, <2>1, <3>1, <3>2
    <2>2. CASE r.nodes[s].id # g.nodes[s].id
      <3>1. r.nodes[s].id = n.id /\ r.nodes[s].target = target /\ g.nextId # MaxNodes + 1 /\ n.id # 0
        BY <1>2, <1>5, <1>16, <2>2 DEF Upserted
      <3>2. g.ids[i] # <<>> => g.ids[i][1] # 0
        BY <3>1 DEF Loop
      <3>3. r.ids[i][1] # 0
        BY <1>13, <3>1, <3>2
      <3>4. L + 1 \in 1..Len(r.ids[i]) /\ r.ids[i][L + 1] = n.id
        BY <1>6, <1>7, <1>8
      <3>5. OnRoute(r.ids, n.id)
        BY <3>3, <3>4 DEF OnRoute
      <3>6. QED
        BY <3>1, <3>5
    <2>3. QED
      BY <2>1, <2>2
  <1>17. d # 0 => IsNode(r.nodes, d, target, target)
    BY <1>4, <1>5, KeepsNodes DEF Loop
  <1>18. ASSUME d = 0
         PROVE  r.nextId = MaxNodes + 1 /\ \A k \in Nat : ~IsNode(r.nodes, k, target, target)
    <2>1. g.nextId = MaxNodes + 1 /\ \A k \in Nat : ~IsNode(g.nodes, k, target, target)
      BY <1>18 DEF Loop
    <2>2. r.nextId = MaxNodes + 1 /\ \A s \in Slots : r.nodes[s].id = g.nodes[s].id
      BY <1>2, <1>5, <2>1 DEF Upserted
    <2>3. \A s \in Slots : r.nodes[s].id # 0 => r.nodes[s].addr = g.nodes[s].addr /\ r.nodes[s].target = g.nodes[s].target
      BY <1>4, <1>5, <2>2 DEF Keeps
    <2>4. QED
      BY <2>1, <2>2, <2>3 DEF IsNode
  <1>19. QED
    BY <1>4, <1>5, <1>10, <1>11, <1>12, <1>15, <1>16, <1>17, <1>18 DEF Loop

(* All addresses of a hop.                                                 *)
LEMMA HopStep ==
    ASSUME NEW ns, NEW d \in Nat, NEW target \in Target, NEW g, Loop(ns, d, target, g),
           NEW i \in Ttls, NEW addrs \in Seq(Target \cup Router)
    PROVE  Loop(ns, d, target, UpsertHop(g, target, i, addrs))
  <1> DEFINE m == Len(addrs)
             V == {x \in Graph : Loop(ns, d, target, x)}
             Step(x, k) == UpsertAddr(x, target, i, addrs[k])
             Solves(u) == u = [k \in 0..m |-> IF k = 0 THEN g ELSE Step(u[k - 1], k)]
             F == [k \in 1..m |-> [x \in V |-> Step(x, k)]]
             U == CHOOSE u : Solves(u)
  <1>1. m \in Nat /\ \A k \in 1..m : addrs[k] \in Target \cup Router
    BY LenProperties, ElementOfSeq
  <1>2. UpsertHop(g, target, i, addrs) = U[m]
    BY DEF UpsertHop
  <1>3. g \in V
    BY DEF Loop
  <1>4. \A k \in 1..m : \A x \in V : Step(x, k) \in V
    <2>1. ASSUME NEW k \in 1..m, NEW x \in V PROVE Step(x, k) \in V
      <3>1. Loop(ns, d, target, Step(x, k))
        BY <1>1, AddrStep
      <3>2. Step(x, k) \in Graph
        BY <3>1 DEF Loop
      <3>3. QED
        BY <3>1, <3>2
    <2>2. QED
      BY <2>1
  <1> HIDE DEF Step, V, m
  <1>5. F \in FiniteSteps(m, V)
    BY <1>4 DEF FiniteSteps
  <1>6. PICK h : h \in FiniteIterates(m, V, g, F)
    <2> HIDE DEF F
    <2>1. QED
      BY <1>1, <1>3, <1>5, FiniteRecursion
  <1>7. h \in [0..m -> V] /\ h[0] = g /\ \A k \in 1..m : h[k] = F[k][h[k - 1]]
    <2> HIDE DEF F
    <2>1. QED
      BY <1>6 DEF FiniteIterates
  <1>8. \A k \in 0..m : k # 0 => k - 1 \in 0..m /\ k \in 1..m
    BY <1>1
  <1>9. Solves(h)
    <2>1. \A k \in 0..m : h[k] = IF k = 0 THEN g ELSE Step(h[k - 1], k)
      BY <1>7, <1>8
    <2>2. h = [k \in 0..m |-> h[k]]
      BY <1>7
    <2>3. QED
      BY <2>1, <2>2
  <1>10. Solves(U)
    <2> HIDE DEF Solves
    <2>1. QED
      BY <1>9
  <1> HIDE DEF U
  <1>11. \A k \in 0..m : U[k] = IF k = 0 THEN g ELSE Step(U[k - 1], k)
    BY <1>10
  <1> DEFINE E == {k \in 0..m : U[k] \in V}
  <1>12. 0 \in E
    BY <1>1, <1>3, <1>11
  <1>13. ASSUME NEW k \in 0..(m - 1), k \in E PROVE k + 1 \in E
    <2>1. k + 1 \in 0..m /\ k + 1 # 0 /\ (k + 1) - 1 = k /\ k + 1 \in 1..m
      BY <1>1
    <2>2. U[k + 1] = Step(U[k], k + 1)
      BY <1>11, <2>1
    <2>3. QED
      BY <1>4, <1>13, <2>1, <2>2
  <1>14. 0..m \subseteq E
    <2> HIDE DEF E
    <2>1. QED
      BY <1>1, <1>12, <1>13, IntervalInduction
  <1>15. U[m] \in V
    BY <1>1, <1>14
  <1>16. QED
    BY <1>2, <1>15 DEF V

(* All hops.                                                               *)
LEMMA HopsLoop ==
    ASSUME NEW ns, NEW d \in Nat, NEW target \in Target, NEW g, Loop(ns, d, target, g),
           NEW hops \in [Ttls -> Seq(Target \cup Router)]
    PROVE  Loop(ns, d, target, UpsertHops(g, target, hops))
  <1> DEFINE m == Len(hops)
             V == {x \in Graph : Loop(ns, d, target, x)}
             Step(x, i) == UpsertHop(x, target, i, hops[i])
             Solves(u) == u = [i \in 0..m |-> IF i = 0 THEN g ELSE Step(u[i - 1], i)]
             F == [i \in 1..m |-> [x \in V |-> Step(x, i)]]
             U == CHOOSE u : Solves(u)
  <1>1. m \in Nat /\ 1..m = Ttls
    <2>1. MaxHops - 1 \in Nat
      BY Bounds
    <2>2. hops \in Seq(Seq(Target \cup Router)) /\ DOMAIN hops = 1..(MaxHops - 1)
      BY <2>1, IsASeq DEF Ttls
    <2>3. QED
      BY <2>1, <2>2, LenProperties DEF Ttls
  <1>2. UpsertHops(g, target, hops) = U[m]
    BY DEF UpsertHops
  <1>3. g \in V
    BY DEF Loop
  <1>4. \A i \in 1..m : \A x \in V : Step(x, i) \in V
    <2>1. ASSUME NEW i \in Ttls, NEW x \in V PROVE Step(x, i) \in V
      <3>1. Loop(ns, d, target, Step(x, i))
        BY HopStep
      <3>2. Step(x, i) \in Graph
        BY <3>1 DEF Loop
      <3>3. QED
        BY <3>1, <3>2
    <2> HIDE DEF Step, V
    <2>2. QED
      BY <1>1, <2>1
  <1> HIDE DEF Step, V, m
  <1>5. F \in FiniteSteps(m, V)
    BY <1>4 DEF FiniteSteps
  <1>6. PICK h : h \in FiniteIterates(m, V, g, F)
    <2> HIDE DEF F
    <2>1. QED
      BY <1>1, <1>3, <1>5, FiniteRecursion
  <1>7. h \in [0..m -> V] /\ h[0] = g /\ \A i \in 1..m : h[i] = F[i][h[i - 1]]
    <2> HIDE DEF F
    <2>1. QED
      BY <1>6 DEF FiniteIterates
  <1>8. \A i \in 0..m : i # 0 => i - 1 \in 0..m /\ i \in 1..m
    BY <1>1
  <1>9. Solves(h)
    <2>1. \A i \in 0..m : h[i] = IF i = 0 THEN g ELSE Step(h[i - 1], i)
      BY <1>7, <1>8
    <2>2. h = [i \in 0..m |-> h[i]]
      BY <1>7
    <2>3. QED
      BY <2>1, <2>2
  <1>10. Solves(U)
    <2> HIDE DEF Solves
    <2>1. QED
      BY <1>9
  <1> HIDE DEF U
  <1>11. \A i \in 0..m : U[i] = IF i = 0 THEN g ELSE Step(U[i - 1], i)
    BY <1>10
  <1> DEFINE E == {i \in 0..m : U[i] \in V}
  <1>12. 0 \in E
    BY <1>1, <1>3, <1>11
  <1>13. ASSUME NEW i \in 0..(m - 1), i \in E PROVE i + 1 \in E
    <2>1. i + 1 \in 0..m /\ i + 1 # 0 /\ (i + 1) - 1 = i /\ i + 1 \in 1..m
      BY <1>1
    <2>2. U[i + 1] = Step(U[i], i + 1)
      BY <1>11, <2>1
    <2>3. QED
      BY <1>4, <1>13, <2>1, <2>2
  <1>14. 0..m \subseteq E
    <2> HIDE DEF E
    <2>1. QED
      BY <1>1, <1>12, <1>13, IntervalInduction
  <1>15. U[m] \in V
    BY <1>1, <1>14
  <1>16. QED
    BY <1>2, <1>15 DEF V

(* Snapshots are sequences of addresses, one for every TTL.                *)
LEMMA SnapshotType ==
    ASSUME NEW target \in Target, NEW hops \in Snapshots[target]
    PROVE  hops \in [Ttls -> Seq(Target \cup Router)]
  <1>1. hops \in [Ttls -> HopLists(target)]
    BY DEF Snapshots, Ttls
  <1>2. ASSUME NEW a \in SeqOf(Router \cup {target}, 1 + MaxAliases)
        PROVE  a \in Seq(Target \cup Router)
    <2>1. PICK m \in 0..(1 + MaxAliases) : a \in [1..m -> Router \cup {target}]
      BY DEF SeqOf
    <2>2. m \in Nat
      BY TopologyAssumption
    <2>3. a \in [1..m -> Target \cup Router]
      BY <2>1
    <2>4. QED
      BY <2>2, <2>3
  <1>3. \A a \in HopLists(target) : a \in Seq(Target \cup Router)
    <2>1. TAKE a \in HopLists(target)
    <2>2. a = <<>> \/ a \in SeqOf(Router \cup {target}, 1 + MaxAliases)
      BY <2>1, Zenon DEF HopLists
    <2>3. <<>> \in Seq(Target \cup Router)
      OBVIOUS
    <2>4. QED
      BY <1>2, <2>2, <2>3
  <1>4. QED
    BY <1>1, <1>3

(* The table and the ids of the hops after all upserts of an update.       *)
LEMMA Upserts ==
    ASSUME NEW target \in Target, NEW hops \in Snapshots[target], TableOK(nodes, nextId), NEW g0, NEW g1,
           g0 = [nodes |-> nodes, nextId |-> nextId, id |-> 0, ids |-> [i \in 1..(MaxHops - 1) |-> <<>>]],
           g1 = upsert_node(g0, target, 0, target, TRUE)
    PROVE  /\ g1.id \in Nat /\ Loop(nodes, g1.id, target, UpsertHops(g1, target, hops))
           /\ g1.id = 0 => nextId = MaxNodes + 1
  <1>1. g0 \in Graph /\ g0.nodes = nodes /\ g0.nextId = nextId /\ \A i \in Ttls : g0.ids[i] = <<>>
    <2>1. nodes \in [Slots -> NodeSet] /\ nextId \in Nat
      BY DEF TableOK
    <2>2. [i \in 1..(MaxHops - 1) |-> <<>>] \in [Ttls -> Seq(Nat)]
      BY DEF Ttls
    <2>3. QED
      BY <2>1, <2>2 DEF Graph, Ttls
  <1>2. Upserted(g0, g1, target, target)
    <2>1. TableOK(g0.nodes, g0.nextId)
      BY <1>1
    <2>2. 0 \in 0..MaxHops /\ TRUE \in BOOLEAN /\ target \in Target \cup Router
      BY Bounds
    <2>3. QED
      BY <1>1, <2>1, <2>2, UpsertOne
  <1>3. /\ g1 \in Graph /\ TableOK(g1.nodes, g1.nextId) /\ Keeps(nodes, g1.nodes)
        /\ \A i \in Ttls : g1.ids[i] = <<>>
    BY <1>1, <1>2 DEF Upserted
  <1>4. g1.id \in Nat
    BY <1>3 DEF Graph
  <1>5. \A i \in Ttls : Len(g1.ids[i]) = 0
    <2>1. Len(<<>>) = 0
      OBVIOUS
    <2>2. QED
      BY <1>3, <2>1, Zenon
  <1>6. g1.id = 0 => g1.nextId = MaxNodes + 1 /\ nextId = MaxNodes + 1
    BY <1>1, <1>2 DEF Upserted
  <1>7. Loop(nodes, g1.id, target, g1)
    <2>1. \A i \in Ttls : \A k \in 1..Len(g1.ids[i]) : g1.ids[i][k] # 0 => Of(g1.nodes, g1.ids[i][k], target)
      <3>1. ASSUME NEW i \in Ttls, NEW k \in 1..Len(g1.ids[i]) PROVE FALSE
        <4>1. k \in 1..0
          BY <1>5, <3>1, Zenon
        <4>2. QED
          BY <4>1
      <3>2. QED
        BY <3>1
    <2>2. \A i \in Ttls : g1.ids[i] # <<>> /\ g1.ids[i][1] = 0 => g1.nextId = MaxNodes + 1
      BY <1>3, Zenon
    <2>3. \A s \in Slots : g1.nodes[s].id # 0 =>
             g1.nodes[s].id = nodes[s].id \/ (g1.nodes[s].target = target /\ g1.nodes[s].id = g1.id)
      BY <1>1, <1>2 DEF Upserted
    <2>4. /\ g1.id # 0 => IsNode(g1.nodes, g1.id, target, target)
          /\ g1.id = 0 => \A k \in Nat : ~IsNode(g1.nodes, k, target, target)
      BY <1>2 DEF Upserted
    <2>5. QED
      BY <1>3, <1>6, <2>1, <2>2, <2>3, <2>4, Zenon DEF Loop
  <1>8. QED
    BY <1>4, <1>6, <1>7, HopsLoop, SnapshotType

-----------------------------------------------------------------------------
(* The edges of an update: each of two different nodes, added unless the   *)
(* table of edges is full.                                                 *)

Real(new, n) == new[n][1] # 0 /\ new[n][2] # 0 /\ new[n][1] # new[n][2]
Edge(new, n) == <<new[n][1], new[n][2]>>

(* add_edge for a sequence of pairs: what is added, and that nothing is    *)
(* refused while there is room.                                            *)
LEMMA EdgesAdded ==
    ASSUME NEW es, IsFiniteSet(es), NEW new, Len(new) \in Nat
    PROVE  /\ IsFiniteSet(AddEdges(es, new)) /\ es \subseteq AddEdges(es, new)
           /\ \A e \in AddEdges(es, new) : e \in es \/ \E n \in 1..Len(new) : e = Edge(new, n) /\ Real(new, n)
           /\ Cardinality(AddEdges(es, new)) < MaxNodes * 2 =>
                 \A n \in 1..Len(new) : Real(new, n) => Edge(new, n) \in AddEdges(es, new)
  <1> DEFINE m == Len(new)
             V == {x \in SUBSET (es \cup {Edge(new, n) : n \in 1..m}) : IsFiniteSet(x)}
             Step(x, n) == add_edge(x, new[n][1], new[n][2])
             Solves(u) == u = [n \in 0..m |-> IF n = 0 THEN es ELSE Step(u[n - 1], n)]
             F == [n \in 1..m |-> [x \in V |-> Step(x, n)]]
             U == CHOOSE u : Solves(u)
             Full(x) == Cardinality(x) >= MaxNodes * 2
  <1>1. m \in Nat
    OBVIOUS
  <1>2. AddEdges(es, new) = U[m]
    BY DEF AddEdges
  <1>3. es \in V
    OBVIOUS
  <1>4. \A n, x : /\ ~Real(new, n) \/ Full(x) => Step(x, n) = x
                  /\ Real(new, n) /\ ~Full(x) => Step(x, n) = x \cup {Edge(new, n)}
    BY DEF add_edge, Real, Edge
  <1> HIDE DEF Step, Full, m
  <1>5. ASSUME NEW n \in 1..m, NEW x \in V PROVE Step(x, n) \in V
    <2> DEFINE e == Edge(new, n)
               X == es \cup {Edge(new, k) : k \in 1..m}
    <2>1. e \in X /\ (Step(x, n) = x \/ Step(x, n) = x \cup {e})
      BY <1>4
    <2>2. x \subseteq X /\ IsFiniteSet(x)
      OBVIOUS
    <2> HIDE DEF e, X
    <2>3. IsFiniteSet(x \cup {e}) /\ x \cup {e} \subseteq X
      BY <2>1, <2>2, FS_AddElement
    <2>4. Step(x, n) \subseteq X /\ IsFiniteSet(Step(x, n))
      BY <2>1, <2>2, <2>3
    <2>5. QED
      BY <2>4 DEF X
  <1> HIDE DEF V
  <1>6. F \in FiniteSteps(m, V)
    BY <1>5 DEF FiniteSteps
  <1>7. PICK h : h \in FiniteIterates(m, V, es, F)
    <2> HIDE DEF F
    <2>1. QED
      BY <1>1, <1>3, <1>6, FiniteRecursion
  <1>8. h \in [0..m -> V] /\ h[0] = es /\ \A n \in 1..m : h[n] = F[n][h[n - 1]]
    <2> HIDE DEF F
    <2>1. QED
      BY <1>7 DEF FiniteIterates
  <1>9. \A n \in 0..m : n # 0 => n - 1 \in 0..m /\ n \in 1..m
    BY <1>1
  <1>10. Solves(h)
    <2>1. \A n \in 0..m : h[n] = IF n = 0 THEN es ELSE Step(h[n - 1], n)
      BY <1>8, <1>9
    <2>2. h = [n \in 0..m |-> h[n]]
      BY <1>8
    <2>3. QED
      BY <2>1, <2>2
  <1>11. Solves(U)
    <2> HIDE DEF Solves
    <2>1. QED
      BY <1>10
  <1> HIDE DEF U
  <1>12. \A n \in 0..m : U[n] = IF n = 0 THEN es ELSE Step(U[n - 1], n)
    BY <1>11
  <1> DEFINE Part(n) == /\ U[n] \in V /\ es \subseteq U[n]
                        /\ \A e \in U[n] : e \in es \/ \E k \in 1..n : e = Edge(new, k) /\ Real(new, k)
                        /\ ~Full(U[n]) => \A k \in 1..n : Real(new, k) => Edge(new, k) \in U[n]
             E == {n \in 0..m : Part(n)}
  <1>13. 0 \in E
    BY <1>1, <1>3, <1>12
  <1>14. ASSUME NEW n \in 0..(m - 1), n \in E PROVE n + 1 \in E
    <2>1. n + 1 \in 0..m /\ n + 1 # 0 /\ (n + 1) - 1 = n /\ n + 1 \in 1..m /\ 1..(n + 1) = (1..n) \cup {n + 1}
      BY <1>1
    <2>2. U[n + 1] = Step(U[n], n + 1)
      BY <1>12, <2>1
    <2>3. Part(n)
      BY <1>14
    <2>4. U[n + 1] \in V
      BY <1>5, <2>1, <2>2, <2>3
    <2>5. CASE ~Real(new, n + 1) \/ Full(U[n])
      <3>1. U[n + 1] = U[n]
        BY <1>4, <2>2, <2>5
      <3>2. Part(n + 1)
        BY <2>1, <2>3, <2>5, <3>1
      <3>3. QED
        BY <2>1, <3>2
    <2>6. CASE Real(new, n + 1) /\ ~Full(U[n])
      <3>1. U[n + 1] = U[n] \cup {Edge(new, n + 1)}
        BY <1>4, <2>2, <2>6
      <3>2. Part(n + 1)
        BY <2>1, <2>3, <2>4, <2>6, <3>1
      <3>3. QED
        BY <2>1, <3>2
    <2>7. QED
      BY <2>5, <2>6
  <1>15. 0..m \subseteq E
    <2> HIDE DEF E
    <2>1. QED
      BY <1>1, <1>13, <1>14, IntervalInduction
  <1>16. Part(m)
    BY <1>1, <1>15
  <1>17. IsFiniteSet(U[m])
    BY <1>16 DEF V
  <1>18. Cardinality(U[m]) \in Nat /\ MaxNodes * 2 \in Nat
    BY <1>17, FS_CardinalityType, Bounds
  <1>19. Cardinality(U[m]) < MaxNodes * 2 => ~Full(U[m])
    BY <1>18 DEF Full
  <1>20. QED
    BY <1>2, <1>16, <1>17, <1>19 DEF m

(* The elements of a flattened sequence are those of its parts.            *)
LEMMA FlattenedSet ==
    ASSUME NEW S, NEW seqs \in Seq(Seq(S))
    PROVE  /\ FlattenSeq(seqs) \in Seq(S)
           /\ \A x : x \in ToSet(FlattenSeq(seqs)) <=> \E n \in 1..Len(seqs) : x \in ToSet(seqs[n])
  <1> DEFINE flat == FlattenSeq(seqs)
  <1>1. flat \in Seq(S) /\ \E off : Offsets(seqs, flat, off)
    BY Flattened
  <1> HIDE DEF flat
  <1>2. PICK off : Offsets(seqs, flat, off)
    BY <1>1
  <1>3. Len(flat) \in Nat /\ DOMAIN flat = 1..Len(flat) /\ Len(seqs) \in Nat
    BY <1>1, LenProperties
  <1>4. \A n \in 1..Len(seqs) : seqs[n] \in Seq(S) /\ DOMAIN seqs[n] = 1..Len(seqs[n]) /\ Len(seqs[n]) \in Nat
    BY LenProperties, ElementOfSeq
  <1>5. ASSUME NEW x, x \in ToSet(flat) PROVE \E n \in 1..Len(seqs) : x \in ToSet(seqs[n])
    <2>1. PICK k \in 1..Len(flat) : x = flat[k]
      BY <1>3, <1>5 DEF ToSet
    <2>2. PICK n \in 1..Len(seqs) : \E j \in 1..Len(seqs[n]) : k = off[n - 1] + j
      BY <1>2 DEF Offsets
    <2>3. PICK j \in 1..Len(seqs[n]) : k = off[n - 1] + j
      BY <2>2
    <2>4. x = seqs[n][j]
      BY <1>2, <2>1, <2>3 DEF Offsets
    <2>5. QED
      BY <1>4, <2>4 DEF ToSet
  <1>6. ASSUME NEW n \in 1..Len(seqs), NEW x, x \in ToSet(seqs[n]) PROVE x \in ToSet(flat)
    <2>1. PICK j \in 1..Len(seqs[n]) : x = seqs[n][j]
      BY <1>4, <1>6 DEF ToSet
    <2>2. flat[off[n - 1] + j] = x
      BY <1>2, <2>1 DEF Offsets
    <2>3. off[n - 1] + j \in 1..Len(flat)
      <3>1. off \in [0..Len(seqs) -> Nat] /\ off[Len(seqs)] = Len(flat) /\ off[n] = off[n - 1] + Len(seqs[n])
        BY <1>2 DEF Offsets
      <3>2. n - 1 \in 0..Len(seqs) /\ n \in 0..Len(seqs) /\ Len(seqs) \in 0..Len(seqs)
        BY <1>3
      <3>3. off[n] <= off[Len(seqs)]
        <4> DEFINE E == {p \in 0..(Len(seqs) - n) : off[n] <= off[n + p]}
        <4>0. off[n] \in Nat
          BY <3>1, <3>2
        <4>1. n + 0 = n /\ off[n] \in Nat /\ Len(seqs) - n \in Nat
          <5>1. n \in Nat /\ n <= Len(seqs)
            BY <1>3
          <5>2. QED
            BY <1>3, <4>0, <5>1
        <4>2. 0 \in E
          BY <4>1
        <4>3. ASSUME NEW p \in 0..((Len(seqs) - n) - 1), p \in E PROVE p + 1 \in E
          <5>1. n + p \in 0..Len(seqs) /\ n + (p + 1) \in 1..Len(seqs) /\ (n + (p + 1)) - 1 = n + p /\ p + 1 \in 0..(Len(seqs) - n)
            BY <1>3
          <5>2. off[n + (p + 1)] = off[n + p] + Len(seqs[n + (p + 1)])
            BY <1>2, <5>1 DEF Offsets
          <5>3. off[n + p] \in Nat /\ Len(seqs[n + (p + 1)]) \in Nat /\ off[n] <= off[n + p]
            BY <1>4, <3>1, <4>3, <5>1
          <5>4. off[n] <= off[n + (p + 1)]
            <6> DEFINE a == off[n]
                       b == off[n + p]
                       c == Len(seqs[n + (p + 1)])
            <6>1. a \in Nat /\ b \in Nat /\ c \in Nat /\ a <= b
              BY <4>1, <5>3
            <6> HIDE DEF a, b, c
            <6>2. a <= b + c
              BY <6>1
            <6>3. QED
              BY <5>2, <6>2 DEF a, b, c
          <5>5. QED
            BY <5>1, <5>4
        <4>4. 0..(Len(seqs) - n) \subseteq E
          <5> HIDE DEF E
          <5>1. QED
            BY <4>1, <4>2, <4>3, IntervalInduction
        <4>5. n + (Len(seqs) - n) = Len(seqs) /\ Len(seqs) - n \in 0..(Len(seqs) - n)
          BY <1>3
        <4>6. QED
          BY <4>4, <4>5
      <3> DEFINE a == off[n - 1]
                 b == Len(seqs[n])
                 c == Len(flat)
      <3>4. a \in Nat /\ b \in Nat /\ c \in Nat /\ a + b <= c /\ j \in Nat /\ j >= 1 /\ j <= b
        <4>1. a \in Nat /\ b \in Nat /\ c \in Nat
          BY <1>3, <1>4, <3>1, <3>2
        <4>2. a + b <= c
          BY <3>1, <3>3
        <4> HIDE DEF a, c
        <4>3. QED
          BY <4>1, <4>2
      <3> HIDE DEF a, b, c
      <3>5. a + j \in 1..c
        BY <3>4
      <3>6. QED
        BY <3>5 DEF a, c
    <2>4. QED
      BY <1>3, <2>2, <2>3 DEF ToSet
  <1>7. QED
    BY <1>1, <1>5, <1>6 DEF flat

(* A function on 1..m is a sequence.                                       *)
LEMMA SeqFun ==
    ASSUME NEW S, NEW m \in Nat, NEW f \in [1..m -> S]
    PROVE  f \in Seq(S) /\ Len(f) = m
  <1>1. f \in Seq(S) /\ DOMAIN f = 1..m
    BY IsASeq
  <1>2. QED
    BY <1>1, LenProperties

(* Every address of a TTL linked to every one of the next.                 *)
Pairs(A, B) == FlattenSeq([k \in 1..Len(A) |-> [n \in 1..Len(B) |-> <<A[k], B[n]>>]])

(* The pairs are those of an element of each.                              *)
LEMMA Product ==
    ASSUME NEW A \in Seq(Nat), NEW B \in Seq(Nat), NEW flat, flat = Pairs(A, B)
    PROVE  /\ flat \in Seq(Nat \X Nat)
           /\ \A x : x \in ToSet(flat) <=> \E k \in 1..Len(A), n \in 1..Len(B) : x = <<A[k], B[n]>>
  <1> DEFINE Row(k) == [n \in 1..Len(B) |-> <<A[k], B[n]>>]
             seqs == [k \in 1..Len(A) |-> Row(k)]
  <1>1. Len(A) \in Nat /\ Len(B) \in Nat
    BY LenProperties
  <1>2. \A k \in 1..Len(A) : A[k] \in Nat
    BY ElementOfSeq
  <1>3. \A n \in 1..Len(B) : B[n] \in Nat
    BY ElementOfSeq
  <1>4. \A k \in 1..Len(A) : Row(k) \in Seq(Nat \X Nat) /\ ToSet(Row(k)) = {<<A[k], B[n]>> : n \in 1..Len(B)}
    <2>1. TAKE k \in 1..Len(A)
    <2>2. Row(k) \in [1..Len(B) -> Nat \X Nat]
      BY <1>2, <1>3
    <2>3. ToSet(Row(k)) = {<<A[k], B[n]>> : n \in 1..Len(B)}
      BY DEF ToSet
    <2> HIDE DEF Row
    <2>4. QED
      BY <1>1, <2>2, <2>3, SeqFun
  <1> HIDE DEF Row
  <1>5. seqs \in [1..Len(A) -> Seq(Nat \X Nat)]
    BY <1>4
  <1>6. seqs \in Seq(Seq(Nat \X Nat)) /\ Len(seqs) = Len(A)
    <2> HIDE DEF seqs
    <2>1. QED
      BY <1>1, <1>5, SeqFun
  <1>7. \A k \in 1..Len(A) : seqs[k] = Row(k)
    OBVIOUS
  <1>8. flat = FlattenSeq(seqs)
    BY DEF Row, Pairs
  <1> HIDE DEF seqs
  <1>9. flat \in Seq(Nat \X Nat) /\ \A x : x \in ToSet(flat) <=> \E k \in 1..Len(A) : x \in ToSet(Row(k))
    BY <1>6, <1>7, <1>8, FlattenedSet
  <1>10. ASSUME NEW x, NEW k \in 1..Len(A)
         PROVE  x \in ToSet(Row(k)) <=> \E n \in 1..Len(B) : x = <<A[k], B[n]>>
    BY <1>4, Zenon
  <1>11. QED
    BY <1>9, <1>10, Zenon

(* The elements of two sequences, one behind the other.                    *)
LEMMA ConcatSet ==
    ASSUME NEW S, NEW s \in Seq(S), NEW t \in Seq(S)
    PROVE  s \o t \in Seq(S) /\ \A x : x \in ToSet(s \o t) <=> x \in ToSet(s) \/ x \in ToSet(t)
  <1> DEFINE u == s \o t
  <1>1. /\ u \in Seq(S) /\ Len(u) = Len(s) + Len(t) /\ Len(s) \in Nat /\ Len(t) \in Nat
        /\ \A k \in 1..(Len(s) + Len(t)) : u[k] = IF k <= Len(s) THEN s[k] ELSE t[k - Len(s)]
    BY ConcatProperties, LenProperties
  <1> HIDE DEF u
  <1>2. DOMAIN u = 1..Len(u) /\ DOMAIN s = 1..Len(s) /\ DOMAIN t = 1..Len(t)
    BY <1>1, LenProperties
  <1>3. ASSUME NEW k \in 1..Len(u) PROVE u[k] \in ToSet(s) \/ u[k] \in ToSet(t)
    <2>1. CASE k <= Len(s)
      BY <1>1, <1>2, <2>1 DEF ToSet
    <2>2. CASE k > Len(s)
      <3>1. u[k] = t[k - Len(s)] /\ k - Len(s) \in 1..Len(t)
        BY <1>1, <2>2
      <3>2. QED
        BY <1>2, <3>1 DEF ToSet
    <2>3. QED
      BY <1>1, <2>1, <2>2
  <1>4. ASSUME NEW k \in 1..Len(s) PROVE s[k] \in ToSet(u)
    <2>1. k \in 1..Len(u) /\ u[k] = s[k]
      BY <1>1
    <2>2. QED
      BY <1>2, <2>1 DEF ToSet
  <1>5. ASSUME NEW k \in 1..Len(t) PROVE t[k] \in ToSet(u)
    <2>1. Len(s) + k \in 1..Len(u) /\ ~(Len(s) + k <= Len(s)) /\ (Len(s) + k) - Len(s) = k
      BY <1>1
    <2>2. u[Len(s) + k] = t[k]
      BY <1>1, <2>1
    <2>3. QED
      BY <1>2, <2>1, <2>2 DEF ToSet
  <1>6. \A x : x \in ToSet(u) <=> x \in ToSet(s) \/ x \in ToSet(t)
    BY <1>2, <1>3, <1>4, <1>5 DEF ToSet
  <1>7. QED
    BY <1>1, <1>6 DEF u

(* What a hop is linked to: the addresses of the next TTL if the table has *)
(* one of them, otherwise the destination.                                 *)
LEMMA SuccessorType ==
    ASSUME NEW ids \in [Ttls -> Seq(Nat)], NEW d \in Nat, NEW i \in 1..(MaxHops - 2)
    PROVE  /\ i \in Ttls /\ i + 1 \in Ttls /\ Successors(ids, i, d) \in Seq(Nat)
           /\ \/ Successors(ids, i, d) = ids[i + 1] /\ \E n \in 1..Len(ids[i + 1]) : ids[i + 1][n] # 0
              \/ Successors(ids, i, d) = <<d>> /\ \A n \in 1..Len(ids[i + 1]) : ids[i + 1][n] = 0
  <1>1. i \in Ttls /\ i + 1 \in Ttls
    BY Bounds DEF Ttls
  <1>2. ids[i + 1] \in Seq(Nat) /\ DOMAIN ids[i + 1] = 1..Len(ids[i + 1])
    BY <1>1, LenProperties
  <1>3. <<d>> \in Seq(Nat)
    OBVIOUS
  <1>4. QED
    BY <1>1, <1>2, <1>3, Zenon DEF Successors

\* the pairs of ids that an update links
Linked(ids, last, d, e) ==
    \/ \E i \in 1..(MaxHops - 2) : \E k \in 1..Len(ids[i]), n \in 1..Len(Successors(ids, i, d)) :
          e = <<ids[i][k], Successors(ids, i, d)[n]>>
    \/ last # 0 /\ \E k \in 1..Len(ids[last]) : e = <<ids[last][k], d>>

(* The sequence that Update gives to add_edge holds exactly the pairs of   *)
(* Linked.                                                                 *)
LEMMA LinksAre ==
    ASSUME NEW ids \in [Ttls -> Seq(Nat)], NEW d \in Nat, NEW last \in 0..(MaxHops - 1), NEW new,
           new = Links(ids, d) \o LastLinks(ids, last, d)
    PROVE  new \in Seq(Nat \X Nat) /\ \A e : e \in ToSet(new) <=> Linked(ids, last, d, e)
  <1> DEFINE P == Nat \X Nat
             next(i) == Successors(ids, i, d)
             Row(i) == Pairs(ids[i], next(i))
             rows == [i \in 1..(MaxHops - 2) |-> Row(i)]
             tail == LastLinks(ids, last, d)
  <1>1. Len(ids) - 1 = MaxHops - 2 /\ MaxHops - 2 \in Nat
    <2>1. MaxHops - 1 \in Nat /\ MaxHops - 2 \in Nat /\ (MaxHops - 1) - 1 = MaxHops - 2
      BY Bounds
    <2>2. Len(ids) = MaxHops - 1
      BY <2>1, SeqFun DEF Ttls
    <2>3. QED
      BY <2>1, <2>2
  <1>2. ASSUME NEW i \in 1..(MaxHops - 2)
        PROVE  /\ Row(i) \in Seq(P)
               /\ \A x : x \in ToSet(Row(i)) <=> \E k \in 1..Len(ids[i]), n \in 1..Len(next(i)) : x = <<ids[i][k], next(i)[n]>>
    <2>1. ids[i] \in Seq(Nat) /\ next(i) \in Seq(Nat)
      BY SuccessorType
    <2> DEFINE A == ids[i]
               B == next(i)
               flat == Row(i)
    <2>2. A \in Seq(Nat) /\ B \in Seq(Nat) /\ flat = Pairs(A, B)
      BY <2>1
    <2> HIDE DEF A, B, flat
    <2>3. /\ flat \in Seq(Nat \X Nat)
          /\ \A x : x \in ToSet(flat) <=> \E k \in 1..Len(A), n \in 1..Len(B) : x = <<A[k], B[n]>>
      BY <2>2, Product
    <2>4. QED
      BY <2>3 DEF A, B, flat
  <1>3. Links(ids, d) = FlattenSeq(rows)
    <2>1. Links(ids, d) = FlattenSeq([i \in 1..(Len(ids) - 1) |-> Row(i)])
      BY DEF Links, Pairs
    <2>2. QED
      BY <1>1, <2>1
  <1> HIDE DEF Row, next
  <1>4. rows \in Seq(Seq(P)) /\ Len(rows) = MaxHops - 2
    <2>1. rows \in [1..(MaxHops - 2) -> Seq(P)]
      BY <1>2
    <2> DEFINE Q == Seq(P)
               m == MaxHops - 2
    <2>2. rows \in [1..m -> Q] /\ m \in Nat
      BY <1>1, <2>1
    <2> HIDE DEF rows, Q, m
    <2>3. rows \in Seq(Q) /\ Len(rows) = m
      BY <2>2, SeqFun
    <2>4. QED
      BY <2>3 DEF Q, m
  <1>5. \A i \in 1..(MaxHops - 2) : rows[i] = Row(i)
    OBVIOUS
  <1> HIDE DEF rows
  <1>6. Links(ids, d) \in Seq(P) /\ \A x : x \in ToSet(Links(ids, d)) <=> \E i \in 1..(MaxHops - 2) : x \in ToSet(Row(i))
    <2> HIDE DEF P
    <2>1. QED
      BY <1>3, <1>4, <1>5, FlattenedSet
  <1>7. tail \in Seq(P) /\ \A x : x \in ToSet(tail) <=> last # 0 /\ \E k \in 1..Len(ids[last]) : x = <<ids[last][k], d>>
    <2>1. CASE last = 0
      <3>1. tail = <<>>
        BY <2>1 DEF LastLinks
      <3>2. ToSet(<<>>) = {} /\ <<>> \in Seq(P)
        BY DEF ToSet
      <3>3. QED
        BY <2>1, <3>1, <3>2, Zenon
    <2>2. CASE last # 0
      <3>1. last \in Ttls
        BY <2>2, Bounds DEF Ttls
      <3>2. ids[last] \in Seq(Nat) /\ Len(ids[last]) \in Nat
        BY <3>1, LenProperties
      <3>3. \A k \in 1..Len(ids[last]) : ids[last][k] \in Nat
        BY <3>2, ElementOfSeq
      <3>4. tail = [k \in 1..Len(ids[last]) |-> <<ids[last][k], d>>]
        BY <2>2 DEF LastLinks
      <3>5. tail \in [1..Len(ids[last]) -> P]
        BY <3>3, <3>4
      <3>6. tail \in Seq(P)
        <4> HIDE DEF P, tail
        <4>1. QED
          BY <3>2, <3>5, SeqFun
      <3>7. ToSet(tail) = {<<ids[last][k], d>> : k \in 1..Len(ids[last])}
        BY <3>4 DEF ToSet
      <3>8. QED
        BY <2>2, <3>6, <3>7, Zenon
    <2>3. QED
      BY <2>1, <2>2
  <1> HIDE DEF tail
  <1>8. new \in Seq(P) /\ \A x : x \in ToSet(new) <=> x \in ToSet(Links(ids, d)) \/ x \in ToSet(tail)
    <2>1. new = Links(ids, d) \o tail
      BY DEF tail
    <2> HIDE DEF P
    <2>2. QED
      BY <1>6, <1>7, <2>1, ConcatSet
  <1>9. ASSUME NEW e PROVE e \in ToSet(new) <=> Linked(ids, last, d, e)
    <2> DEFINE In(i) == \E k \in 1..Len(ids[i]), n \in 1..Len(next(i)) : e = <<ids[i][k], next(i)[n]>>
    <2>0. \A i \in 1..(MaxHops - 2) : e \in ToSet(Row(i)) <=> In(i)
      BY <1>2
    <2>1. e \in ToSet(Links(ids, d)) <=> \E i \in 1..(MaxHops - 2) : In(i)
      <3> HIDE DEF In
      <3>1. QED
        BY <1>6, <2>0
    <2>2. QED
      BY <1>7, <1>8, <2>1, Zenon DEF Linked, next
  <1>10. QED
    BY <1>8, <1>9

-----------------------------------------------------------------------------
(* The last TTL of the route.                                              *)
LEMMA LastIs ==
    ASSUME NEW ids \in [Ttls -> Seq(Nat)]
    PROVE  /\ LastTtl(ids) \in 0..(MaxHops - 1)
           /\ \A i \in Ttls : ids[i] # <<>> /\ ids[i][1] # 0 => i <= LastTtl(ids)
  <1> DEFINE m == MaxHops - 1
             I == {i \in 1..m : ids[i] # <<>> /\ ids[i][1] # 0}
  <1>1. m \in Nat /\ Len(ids) = m
    <2>1. m \in Nat
      BY Bounds
    <2>2. ids \in [1..m -> Seq(Nat)]
      BY DEF Ttls
    <2> HIDE DEF m
    <2>3. QED
      BY <2>1, <2>2, SeqFun
  <1>2. LastTtl(ids) = IF I # {} THEN Max(I) ELSE 0
    BY <1>1 DEF LastTtl, SelectLastInSeq
  <1>3. I \subseteq 1..m /\ \A i \in Ttls : ids[i] # <<>> /\ ids[i][1] # 0 => i \in I
    BY DEF Ttls
  <1> HIDE DEF m, I
  <1>4. CASE I = {}
    BY <1>1, <1>2, <1>3, <1>4 DEF m
  <1>5. CASE I # {}
    <2> DEFINE D == {m - x : x \in I}
    <2>1. D \subseteq Nat /\ D # {}
      <3>1. \A x \in I : x \in 1..m /\ m - x \in Nat
        BY <1>1, <1>3
      <3>2. QED
        BY <1>5, <3>1
    <2>2. PICK y \in D : \A z \in D : y <= z
      <3> HIDE DEF D
      <3>1. QED
        BY <2>1, NatSetLeast
    <2>3. PICK x \in I : y = m - x
      BY <2>2
    <2>4. ASSUME NEW z \in I PROVE x >= z
      <3>1. m - x <= m - z
        BY <2>2, <2>3
      <3>2. x \in Int /\ z \in Int
        BY <1>3
      <3>3. QED
        BY <1>1, <3>1, <3>2
    <2>5. Max(I) \in I /\ \A z \in I : Max(I) >= z
      <3>1. \E w \in I : \A z \in I : w >= z
        BY <2>4
      <3>2. QED
        BY <3>1, Zenon DEF Max
    <2>6. LastTtl(ids) \in I /\ \A z \in I : LastTtl(ids) >= z
      BY <1>2, <1>5, <2>5
    <2>7. LastTtl(ids) \in 0..m
      <3>1. LastTtl(ids) \in 1..m
        BY <1>3, <2>6
      <3>2. QED
        BY <1>1, <3>1
    <2>8. \A i \in Ttls : ids[i] # <<>> /\ ids[i][1] # 0 => i <= LastTtl(ids)
      <3>1. \A z \in I : z <= LastTtl(ids)
        BY <1>1, <1>3, <2>6, <2>7
      <3>2. QED
        BY <1>3, <3>1
    <2>9. QED
      BY <2>7, <2>8 DEF m
  <1>6. QED
    BY <1>4, <1>5

\* the same nodes, but for their ttl
Same(ns, new) ==
    \A s \in Slots : new[s].id = ns[s].id /\ new[s].addr = ns[s].addr /\ new[s].target = ns[s].target

(* The correction of the TTL changes nothing else.                         *)
LEMMA DestTtl ==
    ASSUME NEW ns, NEW next, TableOK(ns, next), NEW d, NEW last \in 0..(MaxHops - 1)
    PROVE  TableOK(FixDestTtl(ns, d, last), next) /\ Same(ns, FixDestTtl(ns, d, last))
  <1> DEFINE new == FixDestTtl(ns, d, last)
  <1> SUFFICES TableOK(new, next) /\ Same(ns, new)
    OBVIOUS
  <1>1. ns \in [Slots -> NodeSet] /\ DOMAIN ns = Slots
    BY DEF TableOK
  <1>2. last + 1 \in 0..MaxHops
    BY Bounds
  <1>3. ASSUME NEW s \in Slots
        PROVE  new[s] \in NodeSet /\ new[s].id = ns[s].id /\ new[s].addr = ns[s].addr /\ new[s].target = ns[s].target
    <2>1. ns[s] \in NodeSet
      BY <1>1
    <2>2. new[s] = ns[s] \/ new[s] = [ns[s] EXCEPT !.ttl = last + 1]
      BY <1>1 DEF FixDestTtl
    <2> HIDE DEF new
    <2>3. QED
      BY <1>2, <2>1, <2>2 DEF NodeSet
  <1>4. DOMAIN new = Slots /\ new = [s \in DOMAIN new |-> new[s]]
    BY <1>1 DEF FixDestTtl
  <1> HIDE DEF new
  <1>5. new \in [Slots -> NodeSet]
    BY <1>3, <1>4
  <1>6. Same(ns, new)
    BY <1>3 DEF Same
  <1>7. \A k \in 1..(next - 1) : new[k % MaxNodes].id = k
    <2>1. TAKE k \in 1..(next - 1)
    <2>2. k \in 1..MaxNodes /\ ns[k % MaxNodes].id = k
      BY Bounds DEF TableOK
    <2>3. k % MaxNodes \in Slots
      BY <2>2, SlotOf
    <2>4. QED
      BY <1>3, <2>2, <2>3
  <1>8. \A s \in Slots : new[s].id # 0 => new[s].id \in 1..(next - 1) /\ new[s].id % MaxNodes = s
    BY <1>3 DEF TableOK
  <1>9. \A r, s \in Slots : r # s /\ new[r].id # 0 /\ new[s].id # 0 =>
          new[r].addr # new[s].addr \/ new[r].target # new[s].target
    BY <1>3 DEF TableOK
  <1>10. next \in Nat /\ next > 0 /\ next <= MaxNodes + 1
    BY DEF TableOK
  <1>11. QED
    BY <1>5, <1>6, <1>7, <1>8, <1>9, <1>10, Zenon DEF TableOK

(* So the nodes are the same.                                              *)
LEMMA SameNodes ==
    ASSUME NEW ns, NEW new, Same(ns, new)
    PROVE  /\ \A id, t : Of(new, id, t) <=> Of(ns, id, t)
           /\ \A id, a, t : IsNode(new, id, a, t) <=> IsNode(ns, id, a, t)
           /\ \A old : Keeps(old, ns) => Keeps(old, new)
  BY DEF Same, Of, IsNode, Keeps

-----------------------------------------------------------------------------
(* Paths along edges es: the ids that reach a goal are the least set that  *)
(* has it and is closed under going back along an edge, MaxNodes steps     *)
(* being enough.                                                           *)

Reach(es, goal) ==
    LET R[n \in Nat] == IF n = 0 THEN {goal}
                        ELSE R[n - 1] \cup {e[1] : e \in {d \in es : d[2] \in R[n - 1]}}
    IN  R[MaxNodes]

Back(es, x) == x \cup {e[1] : e \in {d \in es : d[2] \in x}}

Rounds(es, goal, S, R) ==
    /\ R \in [Nat -> SUBSET S] /\ R[0] = {goal} /\ \A n \in Nat : R[n + 1] = Back(es, R[n])
    /\ Reach(es, goal) = R[MaxNodes]

(* ReachesIn takes MaxNodes steps back from the goal.                      *)
LEMMA ReachRounds ==
    ASSUME NEW S, NEW es, es \subseteq S \X S, NEW goal \in S
    PROVE  \E R : Rounds(es, goal, S, R)
  <1> DEFINE V == SUBSET S
             b == {goal}
             F == [n \in Nat |-> [x \in V |-> Back(es, x)]]
             Solves(R) == R = [n \in Nat |-> IF n = 0 THEN {goal} ELSE Back(es, R[n - 1])]
             R0 == CHOOSE R : Solves(R)
  <1>1. Reach(es, goal) = R0[MaxNodes]
    BY DEF Reach, Back
  <1>2. b \in V
    OBVIOUS
  <1>3. ASSUME NEW x \in V PROVE Back(es, x) \in V
    <2>1. \A e \in es : e[1] \in S
      OBVIOUS
    <2>2. QED
      BY <2>1 DEF Back
  <1>4. F \in StepFunctions(V)
    BY <1>3 DEF StepFunctions
  <1>5. \A n \in Nat : \A x \in V : F[n][x] = Back(es, x)
    OBVIOUS
  <1> HIDE DEF F, V, b
  <1>6. PICK g : g \in Iterates(V, b, F)
    BY <1>2, <1>4, NatRecursion
  <1>7. g \in [Nat -> V] /\ g[0] = b /\ \A n \in Nat : g[n + 1] = Back(es, g[n])
    BY <1>5, <1>6 DEF Iterates
  <1>8. Solves(g)
    <2>1. \A n \in Nat : g[n] = IF n = 0 THEN {goal} ELSE Back(es, g[n - 1])
      <3>1. TAKE n \in Nat
      <3>2. CASE n = 0
        BY <1>7, <3>2 DEF b
      <3>3. CASE n # 0
        <4>1. n - 1 \in Nat /\ (n - 1) + 1 = n
          BY <3>3
        <4>2. g[(n - 1) + 1] = Back(es, g[n - 1])
          BY <1>7, <4>1
        <4>3. QED
          BY <3>3, <4>1, <4>2
      <3>4. QED
        BY <3>2, <3>3
    <2>2. g = [n \in Nat |-> g[n]]
      BY <1>7
    <2>3. QED
      BY <2>1, <2>2
  <1>9. Solves(R0)
    <2> HIDE DEF Solves
    <2>1. QED
      BY <1>8
  <1> HIDE DEF R0
  <1>10. \A n \in Nat : R0[n] = g[n]
    <2> DEFINE E == {n \in Nat : R0[n] = g[n]}
    <2>1. 0 \in E
      BY <1>7, <1>9 DEF b
    <2>2. \A n \in E : n + 1 \in E
      <3>1. TAKE n \in E
      <3>2. n \in Nat /\ n + 1 \in Nat /\ n + 1 # 0 /\ (n + 1) - 1 = n
        OBVIOUS
      <3>3. R0[n + 1] = Back(es, R0[(n + 1) - 1])
        BY <1>9, <3>2
      <3>4. QED
        BY <1>7, <3>2, <3>3
    <2>3. E = Nat
      <3>1. E \subseteq Nat
        OBVIOUS
      <3> HIDE DEF E
      <3>2. QED
        BY <2>1, <2>2, <3>1, NatSetInduction
    <2>4. QED
      BY <2>3
  <1>11. Rounds(es, goal, S, g)
    <2>1. Reach(es, goal) = g[MaxNodes]
      BY <1>1, <1>10, Bounds
    <2>2. QED
      BY <1>7, <2>1 DEF Rounds, V, b
  <1>12. QED
    BY <1>11

(* It stays in every set that has the goal and is closed under such steps. *)
LEMMA ReachLeast ==
    ASSUME NEW S, NEW es, es \subseteq S \X S, NEW goal \in S, NEW X, goal \in X,
           \A e \in es : e[2] \in X => e[1] \in X
    PROVE  Reach(es, goal) \subseteq X
  <1>1. PICK R : Rounds(es, goal, S, R)
    BY ReachRounds
  <1> DEFINE E == {n \in Nat : R[n] \subseteq X}
  <1>2. 0 \in E
    BY <1>1 DEF Rounds
  <1>3. \A n \in E : n + 1 \in E
    BY <1>1 DEF Rounds, Back
  <1>4. E = Nat
    <2>1. E \subseteq Nat
      OBVIOUS
    <2> HIDE DEF E
    <2>2. QED
      BY <1>2, <1>3, <2>1, NatSetInduction
  <1>5. QED
    BY <1>1, <1>4, Bounds DEF Rounds

(* It is such a set itself: every step before the last one adds an id, and *)
(* there are only MaxNodes of them.                                        *)
LEMMA ReachClosed ==
    ASSUME NEW es, es \subseteq (1..MaxNodes) \X (1..MaxNodes), NEW goal \in 1..MaxNodes
    PROVE  /\ goal \in Reach(es, goal)
           /\ \A e \in es : e[2] \in Reach(es, goal) => e[1] \in Reach(es, goal)
  <1> DEFINE S == 1..MaxNodes
  <1>1. PICK R : Rounds(es, goal, S, R)
    BY ReachRounds
  <1>2. MaxNodes \in Nat /\ IsFiniteSet(S) /\ Cardinality(S) = MaxNodes
    BY Bounds, FS_Interval
  <1>3. /\ R \in [Nat -> SUBSET S] /\ R[0] = {goal} /\ \A n \in Nat : R[n + 1] = Back(es, R[n])
        /\ Reach(es, goal) = R[MaxNodes]
    BY <1>1 DEF Rounds
  <1> HIDE DEF S
  <1>4. \A n \in Nat : IsFiniteSet(R[n]) /\ Cardinality(R[n]) \in Nat /\ Cardinality(R[n]) <= MaxNodes
    <2>1. TAKE n \in Nat
    <2>2. R[n] \subseteq S
      BY <1>3
    <2>3. QED
      BY <1>2, <2>2, FS_Subset, FS_CardinalityType
  <1> DEFINE E == {n \in Nat : goal \in R[n] /\ (Cardinality(R[n]) >= n + 1 \/ Back(es, R[n]) = R[n])}
  <1>5. 0 \in E
    <2>1. Cardinality({goal}) = 1
      BY FS_Singleton
    <2>2. QED
      BY <1>3, <2>1
  <1>6. \A n \in E : n + 1 \in E
    <2>1. TAKE n \in E
    <2>2. n \in Nat /\ n + 1 \in Nat /\ R[n + 1] = Back(es, R[n]) /\ goal \in R[n] /\ R[n] \subseteq R[n + 1]
      BY <1>3 DEF Back
    <2>3. CASE Back(es, R[n]) = R[n]
      BY <2>2, <2>3
    <2>4. CASE Back(es, R[n]) # R[n]
      <3>1. Cardinality(R[n]) >= n + 1
        BY <2>4
      <3>2. Cardinality(R[n]) < Cardinality(R[n + 1])
        <4>1. R[n] # R[n + 1] /\ IsFiniteSet(R[n + 1])
          BY <1>4, <2>2, <2>4
        <4> DEFINE A == R[n]
                   B == R[n + 1]
        <4>2. A \subseteq B /\ A # B /\ IsFiniteSet(B) /\ Cardinality(A) \in Nat /\ Cardinality(B) \in Nat
          BY <1>4, <2>2, <4>1
        <4> HIDE DEF A, B
        <4>3. Cardinality(A) <= Cardinality(B) /\ Cardinality(A) # Cardinality(B)
          BY <4>2, FS_Subset
        <4>4. Cardinality(A) < Cardinality(B)
          BY <4>2, <4>3
        <4>5. QED
          BY <4>4 DEF A, B
      <3>3. Cardinality(R[n]) \in Nat /\ Cardinality(R[n + 1]) \in Nat
        BY <1>4, <2>2
      <3>4. Cardinality(R[n + 1]) >= (n + 1) + 1
        BY <2>2, <3>1, <3>2, <3>3
      <3>5. QED
        BY <2>2, <3>4
    <2>5. QED
      BY <2>3, <2>4
  <1>7. E = Nat
    <2>1. E \subseteq Nat
      OBVIOUS
    <2> HIDE DEF E
    <2>2. QED
      BY <1>5, <1>6, <2>1, NatSetInduction
  <1>8. goal \in R[MaxNodes] /\ Back(es, R[MaxNodes]) = R[MaxNodes]
    <2>1. goal \in R[MaxNodes] /\ (Cardinality(R[MaxNodes]) >= MaxNodes + 1 \/ Back(es, R[MaxNodes]) = R[MaxNodes])
      BY <1>2, <1>7
    <2>2. QED
      BY <1>2, <1>4, <2>1
  <1>9. QED
    BY <1>3, <1>8 DEF Back

(* From every address of a route a path leads to the destination: by       *)
(* induction from the last TTL down.  X are the ids that reach it.         *)
LEMMA RouteReaches ==
    ASSUME NEW ids \in [Ttls -> Seq(Nat)], NEW d \in Nat \ {0}, NEW X, d \in X,
           \A a, b \in Nat : Linked(ids, LastTtl(ids), d, <<a, b>>) /\ a # 0 /\ b # 0 /\ a # b /\ b \in X => a \in X
    PROVE  \A id : OnRoute(ids, id) /\ id # 0 => id \in X
  <1> DEFINE last == LastTtl(ids)
             P(i) == \A k \in 1..Len(ids[i]) : ids[i][k] # 0 => ids[i][k] \in X
             E == {j \in Nat : j <= last - 1 => P(last - j)}
  <1>1. last \in 0..(MaxHops - 1) /\ \A i \in Ttls : ids[i] # <<>> /\ ids[i][1] # 0 => i <= last
    BY LastIs
  <1>2. \A a, b \in Nat : Linked(ids, last, d, <<a, b>>) /\ a # 0 /\ b # 0 /\ b \in X => a \in X
    OBVIOUS
  <1> HIDE DEF last
  <1>3. \A i \in Ttls : ids[i] \in Seq(Nat) /\ \A k \in 1..Len(ids[i]) : ids[i][k] \in Nat
    <2>1. TAKE i \in Ttls
    <2>2. ids[i] \in Seq(Nat)
      OBVIOUS
    <2>3. QED
      BY <2>2, ElementOfSeq
  <1>4. MaxHops \in Nat /\ MaxHops >= 2
    BY Bounds
  <1>5. 0 \in E
    <2>1. SUFFICES ASSUME 0 <= last - 1, NEW k \in 1..Len(ids[last]), ids[last][k] # 0
                   PROVE  ids[last][k] \in X
      <3>1. last - 0 = last
        BY <1>1
      <3>2. QED
        BY <3>1, <2>1
    <2>2. last \in Ttls /\ last # 0
      BY <1>1, <1>4, <2>1 DEF Ttls
    <2>3. ids[last][k] \in Nat
      BY <1>3, <2>2
    <2>4. Linked(ids, last, d, <<ids[last][k], d>>)
      BY <2>1, <2>2, Zenon DEF Linked
    <2>5. QED
      BY <1>2, <2>1, <2>3, <2>4
  <1>6. \A j \in E : j + 1 \in E
    <2>1. SUFFICES ASSUME NEW j \in E, j + 1 <= last - 1 PROVE P(last - (j + 1))
      OBVIOUS
    <2> DEFINE i == last - (j + 1)
    <2>2. j \in Nat /\ i + 1 = last - j /\ i \in 1..(MaxHops - 2) /\ j <= last - 1
      BY <1>1, <1>4, <2>1
    <2>3. P(i + 1)
      BY <2>2
    <2> SUFFICES P(i)
      OBVIOUS
    <2> HIDE DEF i
    <2>4. /\ i \in Ttls /\ i + 1 \in Ttls /\ Successors(ids, i, d) \in Seq(Nat)
          /\ \/ Successors(ids, i, d) = ids[i + 1] /\ \E n \in 1..Len(ids[i + 1]) : ids[i + 1][n] # 0
             \/ Successors(ids, i, d) = <<d>> /\ \A n \in 1..Len(ids[i + 1]) : ids[i + 1][n] = 0
      BY <2>2, SuccessorType
    <2>5. \E n \in 1..Len(Successors(ids, i, d)) :
             Successors(ids, i, d)[n] \in Nat \ {0} /\ Successors(ids, i, d)[n] \in X
      <3>1. CASE Successors(ids, i, d) = ids[i + 1] /\ \E n \in 1..Len(ids[i + 1]) : ids[i + 1][n] # 0
        <4>1. PICK n \in 1..Len(ids[i + 1]) : ids[i + 1][n] # 0
          BY <3>1
        <4>2. ids[i + 1][n] \in Nat /\ ids[i + 1][n] \in X
          BY <1>3, <2>3, <2>4, <4>1
        <4>3. QED
          BY <3>1, <4>1, <4>2
      <3>2. CASE Successors(ids, i, d) = <<d>>
        <4>1. Len(<<d>>) = 1 /\ <<d>>[1] = d /\ 1 \in 1..1
          OBVIOUS
        <4>2. QED
          BY <3>2, <4>1
      <3>3. QED
        BY <2>4, <3>1, <3>2
    <2>6. PICK n \in 1..Len(Successors(ids, i, d)) :
             Successors(ids, i, d)[n] \in Nat \ {0} /\ Successors(ids, i, d)[n] \in X
      BY <2>5
    <2> DEFINE b == Successors(ids, i, d)[n]
    <2>7. ASSUME NEW k \in 1..Len(ids[i]), ids[i][k] # 0 PROVE ids[i][k] \in X
      <3>1. Linked(ids, last, d, <<ids[i][k], b>>)
        BY <2>2, <2>6, Zenon DEF Linked
      <3>2. ids[i][k] \in Nat /\ b \in Nat /\ b # 0 /\ b \in X
        BY <1>3, <2>4, <2>6
      <3> HIDE DEF b
      <3>3. QED
        BY <1>2, <2>7, <3>1, <3>2
    <2>8. QED
      BY <2>7
  <1>7. E = Nat
    <2>1. E \subseteq Nat
      OBVIOUS
    <2> HIDE DEF E
    <2>2. QED
      BY <1>5, <1>6, <2>1, NatSetInduction
  <1>8. SUFFICES ASSUME NEW id, OnRoute(ids, id), id # 0 PROVE id \in X
    OBVIOUS
  <1>9. PICK i \in Ttls : \E k \in 1..Len(ids[i]) : ids[i][k] = id /\ ids[i][1] # 0
    BY <1>8 DEF OnRoute
  <1>10. PICK k \in 1..Len(ids[i]) : ids[i][k] = id /\ ids[i][1] # 0
    BY <1>9
  <1>11. ids[i] # <<>>
    <2>1. Len(<<>>) = 0
      OBVIOUS
    <2>2. ASSUME ids[i] = <<>> PROVE FALSE
      <3>1. k \in 1..0
        BY <1>10, <2>1, <2>2, Zenon
      <3>2. QED
        BY <3>1
    <2>3. QED
      BY <2>2
  <1>12. i <= last /\ i \in Nat /\ i > 0
    BY <1>1, <1>4, <1>9, <1>10, <1>11 DEF Ttls
  <1>13. last - i \in Nat /\ last - i <= last - 1 /\ last - (last - i) = i
    BY <1>1, <1>12
  <1>14. P(i)
    BY <1>7, <1>13
  <1>15. QED
    BY <1>8, <1>10, <1>14

-----------------------------------------------------------------------------
(* The invariant.                                                          *)

\* an edge joins two different nodes of one target
Joins(ns, e) ==
    \E a, b \in Nat : e = <<a, b>> /\ a # b /\ \E t \in Target : Of(ns, a, t) /\ Of(ns, b, t)

EdgesOK(ns, es) == IsFiniteSet(es) /\ \A e \in es : Joins(ns, e)

\* a target that has a node has one for its destination
HasDestination(ns) ==
    \A s \in Slots : ns[s].id # 0 => \E k \in Nat : IsNode(ns, k, ns[s].target, ns[s].target)

\* while there is room for edges every node reaches its destination
Reaching(ns, es) ==
    Cardinality(es) < 2 * MaxNodes =>
        \A id, d \in Nat : \A t \in Target : Of(ns, id, t) /\ IsNode(ns, d, t, t) => id \in Reach(es, d)

TopologyInv == /\ TableOK(nodes, nextId)
               /\ EdgesOK(nodes, edges)
               /\ HasDestination(nodes)
               /\ \A s \in Slots : nodes[s].id # 0 => nodes[s].target \in Target
               /\ Reaching(nodes, edges)

(* Ids are within the table, and there is one node of an address and a     *)
(* target.                                                                 *)
LEMMA OneNode ==
    ASSUME NEW ns, NEW next, TableOK(ns, next)
    PROVE  /\ \A id, a, t : Of(ns, id, t) => id \in 1..MaxNodes
           /\ \A id, a, t : IsNode(ns, id, a, t) => id \in 1..MaxNodes /\ Of(ns, id, t)
           /\ \A i, j, a, t : IsNode(ns, i, a, t) /\ IsNode(ns, j, a, t) => i = j
           /\ \A id, t, u : Of(ns, id, t) /\ Of(ns, id, u) => t = u
  <1>1. next \in Nat /\ next <= MaxNodes + 1 /\ MaxNodes \in Nat
    BY Bounds DEF TableOK
  <1>2. \A s \in Slots : ns[s].id # 0 => ns[s].id \in 1..MaxNodes
    <2>1. TAKE s \in Slots
    <2>2. ns[s].id # 0 => ns[s].id \in 1..(next - 1)
      BY DEF TableOK
    <2>3. QED
      BY <1>1, <2>2
  <1>3. \A r, s \in Slots : ns[r].id # 0 /\ ns[r].id = ns[s].id => r = s
    BY DEF TableOK
  <1>4. \A r, s \in Slots : r # s /\ ns[r].id # 0 /\ ns[s].id # 0 =>
          ns[r].addr # ns[s].addr \/ ns[r].target # ns[s].target
    BY DEF TableOK
  <1>5. QED
    BY <1>2, <1>3, <1>4 DEF Of, IsNode

(* Edges are pairs of ids within the table.                                *)
LEMMA JoinsIn ==
    ASSUME NEW ns, NEW next, TableOK(ns, next), NEW es, EdgesOK(ns, es)
    PROVE  es \subseteq (1..MaxNodes) \X (1..MaxNodes)
  BY OneNode DEF EdgesOK, Joins

\* a table without room for another node is the same after an update
LEMMA FullStays ==
    ASSUME NEW ns, TableOK(ns, MaxNodes + 1), NEW new, Keeps(ns, new)
    PROVE  \A s \in Slots : ns[s].id # 0 /\ new[s].id = ns[s].id
  <1>1. TAKE s \in Slots
  <1>2. s \in Nat /\ s < MaxNodes /\ MaxNodes \in Nat /\ MaxNodes > 0 /\ (MaxNodes + 1) - 1 = MaxNodes
    BY Bounds DEF Slots
  <1> DEFINE k == IF s = 0 THEN MaxNodes ELSE s
  <1>3. k \in 1..MaxNodes /\ k % MaxNodes = s
    <2>1. k \in 1..MaxNodes
      BY <1>2
    <2>2. k % MaxNodes = IF k = MaxNodes THEN 0 ELSE k
      BY <2>1, SlotOf
    <2>3. QED
      BY <1>2, <2>1, <2>2
  <1>4. ns[s].id = k
    BY <1>2, <1>3 DEF TableOK
  <1>5. ns[s].id # 0
    BY <1>2, <1>4
  <1>6. QED
    BY <1>5 DEF Keeps

(* An update keeps the invariant: ns and es are the tables it leaves.      *)
LEMMA UpdateStep ==
    ASSUME TopologyInv, NEW target \in Target, NEW hops \in Snapshots[target], Update(target, hops)
    PROVE  TopologyInv'
  <1> DEFINE g0 == [nodes |-> nodes, nextId |-> nextId, id |-> 0, ids |-> [i \in 1..(MaxHops - 1) |-> <<>>]]
             g1 == upsert_node(g0, target, 0, target, TRUE)
             g2 == UpsertHops(g1, target, hops)
             d == g1.id
             ids == g2.ids
             last == LastTtl(ids)
             new == Links(ids, d) \o LastLinks(ids, last, d)
             ns == FixDestTtl(g2.nodes, d, last)
             es == AddEdges(edges, new)
  <1>1. nodes' = ns /\ edges' = es /\ nextId' = g2.nextId
    BY DEF Update
  <1>2. d \in Nat /\ Loop(nodes, d, target, g2) /\ (d = 0 => nextId = MaxNodes + 1)
    <2>1. TableOK(nodes, nextId)
      BY DEF TopologyInv
    <2>2. QED
      BY <2>1, Upserts, Zenon
  <1> HIDE DEF g0, g1, g2, d
  <1>3. /\ TableOK(g2.nodes, g2.nextId) /\ Keeps(nodes, g2.nodes) /\ ids \in [Ttls -> Seq(Nat)]
        /\ \A i \in Ttls : \A k \in 1..Len(ids[i]) : ids[i][k] # 0 => Of(g2.nodes, ids[i][k], target)
        /\ \A s \in Slots : g2.nodes[s].id # 0 =>
              \/ g2.nodes[s].id = nodes[s].id
              \/ g2.nodes[s].target = target /\ (g2.nodes[s].id = d \/ OnRoute(ids, g2.nodes[s].id))
        /\ d # 0 => IsNode(g2.nodes, d, target, target)
        /\ d = 0 => \A k \in Nat : ~IsNode(g2.nodes, k, target, target)
    BY <1>2 DEF Loop, Graph
  <1> HIDE DEF ids
  <1>4. last \in 0..(MaxHops - 1)
    BY <1>3, LastIs
  <1>5. new \in Seq(Nat \X Nat) /\ Len(new) \in Nat /\ \A e : e \in ToSet(new) <=> Linked(ids, last, d, e)
    BY <1>2, <1>3, <1>4, LinksAre, LenProperties
  <1>6. TableOK(ns, g2.nextId) /\ Same(g2.nodes, ns)
    BY <1>3, <1>4, DestTtl
  <1> HIDE DEF ns, new, last
  <1>7. /\ Keeps(nodes, ns)
        /\ \A i \in Ttls : \A k \in 1..Len(ids[i]) : ids[i][k] # 0 => Of(ns, ids[i][k], target)
        /\ d # 0 => IsNode(ns, d, target, target)
        /\ d = 0 => \A k \in Nat : ~IsNode(ns, k, target, target)
    BY <1>3, <1>6, SameNodes
  <1>8. \A s \in Slots : ns[s].id # 0 =>
              \/ ns[s].id = nodes[s].id
              \/ ns[s].target = target /\ (ns[s].id = d \/ OnRoute(ids, ns[s].id))
    BY <1>3, <1>6 DEF Same
  <1>9. /\ IsFiniteSet(es) /\ edges \subseteq es
        /\ \A e \in es : e \in edges \/ \E n \in 1..Len(new) : e = Edge(new, n) /\ Real(new, n)
        /\ Cardinality(es) < MaxNodes * 2 => \A n \in 1..Len(new) : Real(new, n) => Edge(new, n) \in es
    <2>1. IsFiniteSet(edges)
      BY DEF TopologyInv, EdgesOK
    <2>2. QED
      BY <1>5, <2>1, EdgesAdded
  <1> HIDE DEF es
  \* the links: from ids of the route to ids of the route or the destination
  <1>10. ASSUME NEW a \in Nat, NEW b \in Nat
         PROVE  Linked(ids, last, d, <<a, b>>) <=>
                   \E n \in 1..Len(new) : new[n][1] = a /\ new[n][2] = b
    <2>1. \A n \in 1..Len(new) : new[n] \in Nat \X Nat
      BY <1>5, ElementOfSeq
    <2>2. DOMAIN new = 1..Len(new)
      BY <1>5, LenProperties
    <2>3. Linked(ids, last, d, <<a, b>>) <=> \E n \in 1..Len(new) : new[n] = <<a, b>>
      BY <1>5, <2>2 DEF ToSet
    <2>4. QED
      BY <2>1, <2>3
  <1>11. ASSUME NEW a \in Nat, NEW b \in Nat, Linked(ids, last, d, <<a, b>>), a # 0, b # 0
         PROVE  Of(ns, a, target) /\ Of(ns, b, target)
    <2>2. b = d => Of(ns, b, target)
      BY <1>7, <1>11, <1>6, OneNode
    <2>3. CASE \E i \in 1..(MaxHops - 2) : \E k \in 1..Len(ids[i]), n \in 1..Len(Successors(ids, i, d)) :
                  <<a, b>> = <<ids[i][k], Successors(ids, i, d)[n]>>
      <3>1. PICK i \in 1..(MaxHops - 2) : \E k \in 1..Len(ids[i]), n \in 1..Len(Successors(ids, i, d)) :
                  <<a, b>> = <<ids[i][k], Successors(ids, i, d)[n]>>
        BY <2>3
      <3>2. PICK k \in 1..Len(ids[i]), n \in 1..Len(Successors(ids, i, d)) :
                  <<a, b>> = <<ids[i][k], Successors(ids, i, d)[n]>>
        BY <3>1
      <3>3. a = ids[i][k] /\ b = Successors(ids, i, d)[n]
        BY <3>2
      <3>4. /\ i \in Ttls /\ i + 1 \in Ttls
            /\ Successors(ids, i, d) = ids[i + 1] \/ Successors(ids, i, d) = <<d>>
        BY <1>2, <1>3, SuccessorType
      <3>5. Of(ns, a, target)
        BY <1>7, <1>11, <3>2, <3>3, <3>4
      <3>6. CASE Successors(ids, i, d) = ids[i + 1]
        BY <1>7, <1>11, <3>2, <3>3, <3>4, <3>5, <3>6
      <3>7. CASE Successors(ids, i, d) = <<d>>
        <4>1. Len(<<d>>) = 1 /\ <<d>>[1] = d
          OBVIOUS
        <4>2. n \in 1..1
          BY <3>2, <3>7, <4>1
        <4>3. b = d
          BY <3>3, <3>7, <4>1, <4>2
        <4>4. QED
          BY <2>2, <3>5, <4>3
      <3>8. QED
        BY <3>4, <3>6, <3>7
    <2>4. CASE last # 0 /\ \E k \in 1..Len(ids[last]) : <<a, b>> = <<ids[last][k], d>>
      <3>1. PICK k \in 1..Len(ids[last]) : <<a, b>> = <<ids[last][k], d>>
        BY <2>4
      <3>2. a = ids[last][k] /\ b = d
        BY <3>1
      <3>3. last \in Ttls
        BY <1>4, <2>4, Bounds DEF Ttls
      <3>4. QED
        BY <1>7, <1>11, <2>2, <3>1, <3>2, <3>3
    <2>5. QED
      BY <1>11, <2>3, <2>4 DEF Linked
  <1>12. EdgesOK(ns, es)
    <2>1. ASSUME NEW e \in es PROVE Joins(ns, e)
      <3>1. CASE e \in edges
        <4>1. Joins(nodes, e)
          BY <3>1 DEF TopologyInv, EdgesOK
        <4>2. QED
          BY <1>7, <4>1, KeepsNodes DEF Joins
      <3>2. CASE \E n \in 1..Len(new) : e = Edge(new, n) /\ Real(new, n)
        <4>1. PICK n \in 1..Len(new) : e = Edge(new, n) /\ Real(new, n)
          BY <3>2
        <4> DEFINE a == new[n][1]
                   b == new[n][2]
        <4>2. a \in Nat /\ b \in Nat
          <5>1. new[n] \in Nat \X Nat
            BY <1>5, <4>1, ElementOfSeq
          <5>2. QED
            BY <5>1
        <4>3. a # 0 /\ b # 0 /\ a # b /\ e = <<a, b>>
          BY <4>1 DEF Real, Edge
        <4>4. new[n][1] = a /\ new[n][2] = b
          OBVIOUS
        <4> HIDE DEF a, b
        <4>5. Linked(ids, last, d, <<a, b>>)
          BY <1>10, <4>1, <4>2, <4>4
        <4>6. Of(ns, a, target) /\ Of(ns, b, target)
          BY <1>11, <4>2, <4>3, <4>5
        <4>7. QED
          BY <4>2, <4>3, <4>6 DEF Joins
      <3>3. QED
        BY <1>9, <3>1, <3>2
    <2>2. QED
      BY <1>9, <2>1 DEF EdgesOK
  \* without a destination node the table was full, and no node is new
  <1>13. d = 0 => \A s \in Slots : nodes[s].id # 0 /\ ns[s].id = nodes[s].id
    <2>1. TableOK(nodes, nextId)
      BY DEF TopologyInv
    <2>2. QED
      BY <1>2, <1>7, <2>1, FullStays
  <1>14. /\ HasDestination(ns)
         /\ \A s \in Slots : ns[s].id # 0 => ns[s].target \in Target
    <2>1. ASSUME NEW s \in Slots, ns[s].id # 0
          PROVE  ns[s].target \in Target /\ \E k \in Nat : IsNode(ns, k, ns[s].target, ns[s].target)
      <3>1. CASE ns[s].id = nodes[s].id
        <4>1. nodes[s].id # 0 /\ ns[s].target = nodes[s].target
          BY <1>7, <2>1, <3>1 DEF Keeps
        <4>2. /\ nodes[s].target \in Target
              /\ \E k \in Nat : IsNode(nodes, k, nodes[s].target, nodes[s].target)
          BY <4>1 DEF TopologyInv, HasDestination
        <4>3. QED
          BY <1>7, <4>1, <4>2, KeepsNodes
      <3>2. CASE ns[s].id # nodes[s].id
        <4>1. ns[s].target = target /\ d # 0
          BY <1>8, <1>13, <2>1, <3>2
        <4>2. QED
          BY <1>2, <1>7, <4>1
      <3>3. QED
        BY <3>1, <3>2
    <2>2. QED
      BY <2>1 DEF HasDestination
  <1>15. Reaching(ns, es)
    <2>1. SUFFICES ASSUME Cardinality(es) < 2 * MaxNodes, NEW id \in Nat, NEW q \in Nat, NEW t \in Target,
                          Of(ns, id, t), IsNode(ns, q, t, t)
                   PROVE  id \in Reach(es, q)
      BY DEF Reaching
    <2>2. MaxNodes * 2 = 2 * MaxNodes /\ MaxNodes \in Nat
      BY Bounds
    <2>3. Cardinality(edges) < 2 * MaxNodes
      <3>1. Cardinality(edges) <= Cardinality(es) /\ IsFiniteSet(edges)
        BY <1>9, FS_Subset
      <3>2. Cardinality(edges) \in Nat /\ Cardinality(es) \in Nat
        BY <1>9, <3>1, FS_CardinalityType
      <3>3. QED
        BY <2>1, <2>2, <3>1, <3>2
    <2>4. q \in 1..MaxNodes /\ Of(ns, q, t)
      BY <1>6, <2>1, OneNode
    <2>5. /\ q \in Reach(es, q)
          /\ \A e \in es : e[2] \in Reach(es, q) => e[1] \in Reach(es, q)
      BY <1>6, <1>12, <2>4, JoinsIn, ReachClosed
    <2>6. PICK s \in Slots : ns[s].id = id /\ id # 0 /\ ns[s].target = t
      BY <2>1 DEF Of
    <2>7. CASE ns[s].id = nodes[s].id
      <3>1. nodes[s].id # 0 /\ nodes[s].target = t
        BY <1>7, <2>6, <2>7 DEF Keeps
      <3>2. PICK k \in Nat : IsNode(nodes, k, t, t)
        BY <3>1 DEF TopologyInv, HasDestination
      <3>3. k = q
        BY <1>6, <1>7, <2>1, <3>2, KeepsNodes, OneNode
      <3>4. Of(nodes, id, t)
        BY <2>6, <2>7, <3>1 DEF Of
      <3>5. id \in Reach(edges, q)
        BY <2>3, <3>2, <3>3, <3>4 DEF TopologyInv, Reaching
      <3>6. edges \subseteq (1..MaxNodes) \X (1..MaxNodes)
        BY JoinsIn DEF TopologyInv
      <3>7. Reach(edges, q) \subseteq Reach(es, q)
        <4>1. \A e \in edges : e[2] \in Reach(es, q) => e[1] \in Reach(es, q)
          BY <1>9, <2>5
        <4> DEFINE S == 1..MaxNodes
                   X == Reach(es, q)
        <4>2. edges \subseteq S \X S /\ q \in S /\ q \in X /\ \A e \in edges : e[2] \in X => e[1] \in X
          BY <2>4, <2>5, <3>6, <4>1
        <4> HIDE DEF S, X
        <4>3. Reach(edges, q) \subseteq X
          BY <4>2, ReachLeast
        <4>4. QED
          BY <4>3 DEF X
      <3>8. QED
        BY <3>5, <3>7
    <2>8. CASE ns[s].id # nodes[s].id
      <3>1. t = target /\ d # 0 /\ (id = d \/ OnRoute(ids, id))
        BY <1>8, <1>13, <2>6, <2>8
      <3>2. d = q
        BY <1>6, <1>7, <2>1, <3>1, OneNode
      <3> DEFINE X == Reach(es, q)
      <3>3. ASSUME NEW a \in Nat, NEW b \in Nat, Linked(ids, last, d, <<a, b>>), a # 0, b # 0, a # b, b \in X
            PROVE  a \in X
        <4>1. PICK n \in 1..Len(new) : new[n][1] = a /\ new[n][2] = b
          BY <1>10, <3>3
        <4>2. Real(new, n) /\ Edge(new, n) = <<a, b>>
          BY <3>3, <4>1 DEF Real, Edge
        <4>3. <<a, b>> \in es
          BY <1>9, <2>1, <2>2, <4>1, <4>2
        <4>4. <<a, b>>[1] = a /\ <<a, b>>[2] = b
          OBVIOUS
        <4> DEFINE e == <<a, b>>
        <4>5. e \in es /\ e[1] = a /\ e[2] = b
          BY <4>3, <4>4
        <4> HIDE DEF e, X
        <4>6. \A f \in es : f[2] \in X => f[1] \in X
          BY <2>5 DEF X
        <4>7. QED
          BY <3>3, <4>5, <4>6
      <3>4. d \in X /\ d \in Nat \ {0}
        BY <1>2, <2>5, <3>1, <3>2
      <3> HIDE DEF X
      <3>5. \A a, b \in Nat : Linked(ids, LastTtl(ids), d, <<a, b>>) /\ a # 0 /\ b # 0 /\ a # b /\ b \in X => a \in X
        BY <3>3 DEF last
      <3>6. \A i : OnRoute(ids, i) /\ i # 0 => i \in X
        BY <1>3, <3>4, <3>5, RouteReaches
      <3>7. id \in X
        BY <2>6, <3>1, <3>4, <3>6
      <3>8. QED
        BY <3>7 DEF X
    <2>9. QED
      BY <2>7, <2>8
  <1>16. QED
    BY <1>1, <1>6, <1>12, <1>14, <1>15 DEF TopologyInv

(* The invariant that the two properties rest on.                          *)
THEOREM TopologyInvariant == GraphSpec => []TopologyInv
  <1>1. GraphInit => TopologyInv
    <2>1. SUFFICES ASSUME GraphInit PROVE TopologyInv
      OBVIOUS
    <2>2. /\ nodes = [s \in Slots |-> Unused] /\ edges = {} /\ nextId = 1
      BY <2>1 DEF GraphInit
    <2>3. \A s \in Slots : nodes[s].id = 0
      BY <2>2 DEF Unused
    <2>4. nodes \in [Slots -> NodeSet]
      <3>1. 0 \in 0..MaxHops /\ 0 \in Nat
        BY Bounds
      <3>2. "" \in Target \cup Router \cup {""} /\ "" \in Target \cup {""} /\ FALSE \in BOOLEAN
        OBVIOUS
      <3>3. Unused \in NodeSet
        BY <3>1, <3>2, Zenon DEF Unused, NodeSet
      <3>4. QED
        BY <2>2, <3>3
    <2>5. TableOK(nodes, nextId)
      BY <2>2, <2>3, <2>4, Bounds DEF TableOK
    <2>6. EdgesOK(nodes, edges)
      BY <2>2, FS_EmptySet DEF EdgesOK
    <2>7. HasDestination(nodes) /\ \A s \in Slots : nodes[s].id # 0 => nodes[s].target \in Target
      BY <2>3 DEF HasDestination
    <2>8. Reaching(nodes, edges)
      BY <2>3 DEF Reaching, Of
    <2>9. QED
      BY <2>5, <2>6, <2>7, <2>8 DEF TopologyInv
  <1>2. TopologyInv /\ [GraphNext]_graphVars => TopologyInv'
    <2>1. SUFFICES ASSUME TopologyInv, [GraphNext]_graphVars PROVE TopologyInv'
      OBVIOUS
    <2>2. CASE GraphNext
      BY <2>1, <2>2, UpdateStep DEF GraphNext
    <2>3. CASE UNCHANGED graphVars
      BY <2>1, <2>3 DEF TopologyInv, graphVars
    <2>4. QED
      BY <2>1, <2>2, <2>3
  <1>3. QED
    BY <1>1, <1>2, PTL DEF GraphSpec

(* The route graph is sound: node ids, slots and the ends of edges, also   *)
(* when nsr_topology_upsert_node finds no room.                            *)
THEOREM GraphIsSound == GraphSpec => []GraphSound
  <1>1. TopologyInv => GraphSound
    <2>1. SUFFICES ASSUME TopologyInv PROVE GraphSound
      OBVIOUS
    <2>2. TableOK(nodes, nextId) /\ EdgesOK(nodes, edges)
      BY <2>1 DEF TopologyInv
    <2>3. GraphTypeOK
      <3>1. nodes \in [Slots -> NodeSet] /\ nextId \in Nat
        BY <2>2 DEF TableOK
      <3>2. edges \subseteq Nat \X Nat
        BY <2>2 DEF EdgesOK, Joins
      <3>3. QED
        BY <3>1, <3>2 DEF GraphTypeOK, NodeSet
    <2>4. Cardinality(Used) = nextId - 1
      BY <2>2, Counted DEF NodeCount, Used
    <2>5. \A r, s \in Used : r # s => /\ nodes[r].id # nodes[s].id
                                      /\ \/ nodes[r].addr # nodes[s].addr
                                         \/ nodes[r].target # nodes[s].target
      BY <2>2 DEF TableOK, Used
    <2>6. ASSUME NEW id, NEW t, Of(nodes, id, t) PROVE id \in Ids /\ NodeOf(id).target = t
      <3>1. PICK s \in Used : nodes[s].id = id /\ nodes[s].target = t
        BY <2>6 DEF Of, Used
      <3> DEFINE c == CHOOSE r \in Used : nodes[r].id = id
      <3>2. c \in Used /\ nodes[c].id = id
        BY <3>1, Zenon
      <3>3. c = s
        BY <2>5, <3>1, <3>2
      <3>4. NodeOf(id) = nodes[c]
        BY DEF NodeOf
      <3>5. QED
        BY <3>1, <3>3, <3>4 DEF Ids
    <2>7. \A e \in edges : /\ e[1] \in Ids /\ e[2] \in Ids /\ e[1] # e[2]
                           /\ NodeOf(e[1]).target = NodeOf(e[2]).target
      <3>1. TAKE e \in edges
      <3>2. PICK a \in Nat, b \in Nat : e = <<a, b>> /\ a # b /\ \E t \in Target : Of(nodes, a, t) /\ Of(nodes, b, t)
        BY <2>2 DEF EdgesOK, Joins
      <3>3. e[1] = a /\ e[2] = b
        BY <3>2
      <3>4. QED
        BY <2>6, <3>2, <3>3
    <2>8. QED
      BY <2>3, <2>4, <2>5, <2>7 DEF GraphSound
  <1>2. QED
    BY <1>1, TopologyInvariant, PTL

(* While the table of edges has room, from each node a path leads to the   *)
(* node of its target, whatever nsr_topology_update_from_telemetry was     *)
(* given and refused.                                                      *)
THEOREM RoutesReach == GraphSpec => []RoutesReachDestination
  <1>1. TopologyInv => RoutesReachDestination
    <2>1. SUFFICES ASSUME TopologyInv, Cardinality(edges) < 2 * MaxNodes, NEW s \in Used, NEW d \in Used,
                          nodes[d].addr = nodes[s].target, nodes[d].target = nodes[s].target
                   PROVE  nodes[s].id \in ReachesIn(nodes[d].id)
      BY DEF RoutesReachDestination
    <2> DEFINE t == nodes[s].target
    <2>2. nodes \in [Slots -> NodeSet] /\ s \in Slots /\ d \in Slots /\ t \in Target
      BY <2>1 DEF TopologyInv, TableOK, Used
    <2>3. nodes[s].id \in Nat /\ nodes[d].id \in Nat
      BY <2>2 DEF NodeSet
    <2>4. Of(nodes, nodes[s].id, t) /\ IsNode(nodes, nodes[d].id, t, t)
      BY <2>1, <2>2 DEF Of, IsNode, Used
    <2>5. nodes[s].id \in Reach(edges, nodes[d].id)
      BY <2>1, <2>2, <2>3, <2>4 DEF TopologyInv, Reaching
    <2>6. ReachesIn(nodes[d].id) = Reach(edges, nodes[d].id)
      BY DEF ReachesIn, Reach
    <2>7. QED
      BY <2>5, <2>6
  <1>2. QED
    BY <1>1, TopologyInvariant, PTL
=============================================================================
