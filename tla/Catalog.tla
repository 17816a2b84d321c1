------------------------------ MODULE Catalog ------------------------------
(***************************************************************************)
(* Assistants with their versions, and crons with the scheduler that fires *)
(* them (ops.py), over the start of the pool, which drops and registers    *)
(* again the assistants of the configured graphs, and the truncate route.  *)
(*                                                                         *)
(* What of an operation follows its last await is one step.  A cron is an  *)
(* object shared by the lists that hold it: deletions replace the list in  *)
(* the store, and a pass of the scheduler goes on over the list it found.  *)
(***************************************************************************)
EXTENDS Integers, Sequences, FiniteSetsExt, SequencesExt

CONSTANTS
  User,        (* ids of assistants made by clients                         *)
  System,      (* ids of the assistants of graphs, in their order           *)
  Data,        (* values of config, and of graph_id and context             *)
  CronId, Thread,
  Period,      (* schedules: a run every so many time units                 *)
  Zone,        (* time zones: an offset of the dates                        *)
  NoThread,
  MaxTime, MaxRequest

ASSUME CatalogAssumption ==
  /\ IsFiniteSet(User) /\ User \cap ToSet(System) = {}
  /\ System \in Seq(ToSet(System)) /\ IsInjective(System)
  /\ Data # {} /\ NoThread \notin Thread
  /\ Period \subseteq Nat \ {0} /\ Zone \subseteq Nat /\ 0 \in Zone
  /\ MaxTime \in Nat /\ MaxRequest \in Nat

VARIABLES
  assistants, versions,  (* the lists of the store                          *)
  crons,                 (* the list of the store: cron objects by number   *)
  obj,                   (* the cron objects made so far                    *)
  threads,
  suspended,             (* requests at an await                            *)
  pass,                  (* the scheduler's pass over the crons             *)
  last,                  (* per cron id the last date that was run          *)
  now, requests

vars == <<assistants, versions, crons, obj, threads, suspended, pass, last, now, requests>>
assistantVars == <<assistants, versions>>
cronVars == <<crons, obj>>
schedulerVars == <<pass, last>>

\* The entries of a list at the positions ps, in order, and a list
\* comprehension: SelectSeq in a form that the provers can expand.
At(s, ps) ==
  [i \in 1..Cardinality(ps) |-> s[CHOOSE p \in ps : Cardinality({q \in ps : q < p}) = i - 1]]
Filter(s, Test(_)) == At(s, {i \in DOMAIN s : Test(s[i])})

Id == User \cup ToSet(System)
IsSystem(a) == a \in ToSet(System)

SystemData == CHOOSE d \in Data : TRUE

\* "conf" is what set_latest restores (config, metadata, name, description),
\* "base" what it leaves (graph_id, context).
Version == [id : Id, ver : Nat, conf : Data, base : Data]

Has(a) == \E i \in DOMAIN assistants : assistants[i].id = a
Entry(a) == assistants[CHOOSE i \in DOMAIN assistants : assistants[i].id = a]
VersionsOf(a) == {v \in ToSet(versions) : v.id = a}
VersionNumbers(a) == {v.ver : v \in VersionsOf(a)}

Request == requests < MaxRequest /\ requests' = requests + 1

\* A pass of the scheduler: it is at pos, 0 when there is none, in the list of
\* the store, or in the one it found once a deletion has replaced that.  hold
\* is the copy of the cron whose run is being created.
NoHold == [id |-> "none"]
Idle == [pos |-> 0, live |-> TRUE, list |-> <<>>, now |-> 0, hold |-> NoHold]

List == IF pass.live THEN crons ELSE pass.list
Detached == IF pass.pos = 0 THEN pass ELSE [pass EXCEPT !.live = FALSE, !.list = List]

----------------------------------------------------------------------------
(* Assistants.                                                             *)

First(a, c, b) == [id |-> a, ver |-> 1, conf |-> c, base |-> b]

AssistantPut(a, c, b) ==
  /\ Request /\ ~ Has(a)
  /\ assistants' = Append(assistants, First(a, c, b))
  /\ versions' = Append(versions, First(a, c, b))
  /\ UNCHANGED <<cronVars, threads, suspended, schedulerVars, now>>

Updated(e) == [i \in DOMAIN assistants |-> IF assistants[i].id = e.id THEN e ELSE assistants[i]]

\* max() of no version raises, unless there is no version at all.
MutNewVersion(a) == Entry(a).ver + 1
NewVersion(a) == IF versions = <<>> THEN 1 ELSE Max(VersionNumbers(a)) + 1

AssistantPatch(a, c, b) ==
  /\ Request /\ Has(a) /\ (versions = <<>> \/ VersionNumbers(a) # {})
  /\ LET e == [id |-> a, ver |-> NewVersion(a), conf |-> c, base |-> b]
     IN versions' = Append(versions, e) /\ assistants' = Updated(e)
  /\ UNCHANGED <<cronVars, threads, suspended, schedulerVars, now>>

Restored(e, v) == [e EXCEPT !.ver = v.ver, !.conf = v.conf]

FirstVersion(a, n) ==
  versions[Min({i \in DOMAIN versions : versions[i].id = a /\ versions[i].ver = n})]

SetLatest(a, n) ==
  /\ Request /\ Has(a) /\ n \in VersionNumbers(a)
  /\ assistants' = Updated(Restored(Entry(a), FirstVersion(a, n)))
  /\ UNCHANGED <<versions, cronVars, threads, suspended, schedulerVars, now>>

\* Assistants.delete checks, then awaits Runs.cancel and Threads.delete.
AssistantDelete(a) ==
  /\ Request /\ Has(a)
  /\ suspended' = suspended \cup {[op |-> "delete", n |-> requests, id |-> a]}
  /\ UNCHANGED <<assistantVars, cronVars, threads, schedulerVars, now>>

\* The crons a cascade leaves.  The list is a new one.
MutWithout(a) == crons
Without(a) == Filter(crons, LAMBDA i : obj[i].assistant # a)

AssistantDeleted(r) ==
  /\ r.op = "delete"
  /\ suspended' = suspended \ {r}
  /\ assistants' = Filter(assistants, LAMBDA e : e.id # r.id)
  /\ versions' = Filter(versions, LAMBDA v : v.id # r.id)
  /\ crons' = Without(r.id)
  /\ pass' = Detached
  /\ UNCHANGED <<obj, threads, last, now, requests>>

----------------------------------------------------------------------------
(* Crons.                                                                  *)

\* next_cron_date: the first date of the schedule in the zone after t.
OnSchedule(s, z, d) == d % s = z % s
NextCronDate(s, z, t) == CHOOSE d \in t + 1 .. t + s : OnSchedule(s, z, d)

NoEnd == MaxTime + 1

\* "late" and "stale" are history: the assistant was gone when the cron was
\* appended; the date is not one of the schedule.
Cron == [id : CronId, assistant : Id, thread : Thread \cup {NoThread}, sched : Period, zone : Zone,
         enabled : BOOLEAN, end : 0..NoEnd, next : Nat, late : BOOLEAN, stale : BOOLEAN]

MutTaken(k) == FALSE
Taken(k) == \E j \in ToSet(crons) : obj[j].id = k

\* The end of Crons.put: nothing when the id is taken.  Crons are made
\* enabled; an update disables them.
AppendCron(k, a, t, s) ==
  IF Taken(k) THEN UNCHANGED cronVars
  ELSE /\ obj' = Append(obj, [id |-> k, assistant |-> a, thread |-> t, sched |-> s, zone |-> 0,
                              enabled |-> TRUE, end |-> NoEnd, next |-> NextCronDate(s, 0, now),
                              late |-> ~ Has(a), stale |-> FALSE])
       /\ crons' = Append(crons, Len(obj) + 1)

CronPut(k, a, s) ==
  /\ Request /\ Has(a)
  /\ AppendCron(k, a, NoThread, s)
  /\ UNCHANGED <<assistantVars, threads, suspended, schedulerVars, now>>

\* With a thread, Crons.put awaits the authorisation of the thread after the
\* check of the assistant.
CronPutThread(k, a, t, s) ==
  /\ Request /\ Has(a)
  /\ suspended' = suspended \cup {[op |-> "cron", n |-> requests, id |-> k, assistant |-> a, thread |-> t, sched |-> s]}
  /\ UNCHANGED <<assistantVars, cronVars, threads, schedulerVars, now>>

ThreadFound(t) == t \in threads

CronPutDone(r) ==
  /\ r.op = "cron"
  /\ suspended' = suspended \ {r}
  /\ IF ThreadFound(r.thread) THEN AppendCron(r.id, r.assistant, r.thread, r.sched)
     ELSE UNCHANGED cronVars
  /\ UNCHANGED <<assistantVars, threads, schedulerVars, now, requests>>

\* Crons.update: the date follows the schedule and the zone.
MutRedated(c, s, z) == [c EXCEPT !.zone = z, !.sched = s,
                          !.next = IF s # c.sched THEN NextCronDate(s, z, now) ELSE c.next]
Redated(c, s, z) == [c EXCEPT !.zone = z, !.sched = s, !.next = NextCronDate(s, z, now), !.stale = FALSE]

\* A schedule that is not valid is refused after the zone was assigned.
Refused(c, z) == [c EXCEPT !.zone = z, !.stale = TRUE]

CronUpdate(i) ==
  /\ Request /\ i \in ToSet(crons)
  /\ LET c == obj[i]
     IN \/ \E s \in Period, z \in Zone : obj' = [obj EXCEPT ![i] = Redated(c, s, z)]
        \/ \E z \in Zone \ {c.zone} : obj' = [obj EXCEPT ![i] = Refused(c, z)]
        \/ obj' = [obj EXCEPT ![i].enabled = ~ c.enabled]
        \/ \E e \in {now, NoEnd} \ {c.end} : obj' = [obj EXCEPT ![i].end = e]
  /\ UNCHANGED <<assistantVars, crons, threads, suspended, schedulerVars, now>>

CronDelete(k) ==
  /\ Request /\ Taken(k)
  /\ crons' = Filter(crons, LAMBDA i : obj[i].id # k)
  /\ pass' = Detached
  /\ UNCHANGED <<assistantVars, obj, threads, suspended, last, now>>

\* Threads.delete, whose awaits come before.
ThreadDelete(t) ==
  /\ Request /\ t \in threads
  /\ threads' = threads \ {t}
  /\ crons' = Filter(crons, LAMBDA i : obj[i].thread # t)
  /\ pass' = Detached
  /\ UNCHANGED <<assistantVars, obj, suspended, last, now>>

----------------------------------------------------------------------------
(* The scheduler (langgraph_api.cron_scheduler) over Crons.next: for every *)
(* cron that is due, awaits the creation of a run, then set_next_run_date. *)

MutDue(c, t) == c.enabled /\ c.end < NoEnd /\ c.end >= t /\ c.next <= t
Due(c, t) == c.enabled /\ c.end >= t /\ c.next <= t

\* The generator goes to the next due cron without an await.
DueFrom(p, t) == {j \in p..Len(List) : Due(obj[List[j]], t)}

Fire(j, t) ==
  LET c == obj[List[j]]
  IN /\ pass' = [pass EXCEPT !.pos = j + 1, !.now = t,
                   !.hold = [id |-> c.id, sched |-> c.sched, zone |-> c.zone, date |-> c.next, prev |-> last[c.id]]]
     /\ last' = [last EXCEPT ![c.id] = c.next]

PassBegin ==
  /\ pass.pos = 0 /\ DueFrom(1, now) # {}
  /\ Fire(Min(DueFrom(1, now)), now)
  /\ UNCHANGED <<assistantVars, cronVars, threads, suspended, now, requests>>

PassStep ==
  /\ pass.pos # 0 /\ pass.hold = NoHold
  /\ IF DueFrom(pass.pos, pass.now) = {} THEN pass' = Idle /\ UNCHANGED last
     ELSE Fire(Min(DueFrom(pass.pos, pass.now)), pass.now)
  /\ UNCHANGED <<assistantVars, cronVars, threads, suspended, now, requests>>

\* set_next_run_date, from the copy the generator gave out.
MutDated(c, h) == [c EXCEPT !.next = h.date]
Dated(c, h) ==
  [c EXCEPT !.next = NextCronDate(h.sched, h.zone, pass.now),
            !.stale = h.sched # c.sched \/ h.zone # c.zone]

SetNextRunDate ==
  /\ pass.hold # NoHold
  /\ obj' = [i \in DOMAIN obj |->
               IF i \in ToSet(crons) /\ obj[i].id = pass.hold.id THEN Dated(obj[i], pass.hold) ELSE obj[i]]
  /\ pass' = [pass EXCEPT !.hold = NoHold]
  /\ UNCHANGED <<assistantVars, crons, threads, suspended, last, now, requests>>

Tick ==
  /\ now < MaxTime /\ now' = now + 1
  /\ UNCHANGED <<assistantVars, cronVars, threads, suspended, schedulerVars, requests>>

----------------------------------------------------------------------------
(* The server stops, keeping its data, and starts.                         *)

\* The loop of start_pool removes from the list it iterates over, so that the
\* entry behind a removed one is passed over: of the graphs' assistants in a
\* row, the first, the third and so on are removed.
Removed(i) ==
  \E first \in 1..i :
    /\ \A j \in first..i : IsSystem(assistants[j].id)
    /\ first = 1 \/ ~ IsSystem(assistants[first - 1].id)
    /\ (i - first) % 2 = 0

\* The graphs gs are registered (if_exists is do_nothing).
AfterStart(gs) ==
  LET old == At(assistants, {i \in DOMAIN assistants : ~ Removed(i)})
      new == Filter(System, LAMBDA g : g \in gs /\ \A i \in DOMAIN old : old[i].id # g)
  IN [old |-> old, new |-> [i \in DOMAIN new |-> First(new[i], SystemData, SystemData)]]

Restart(gs) ==
  /\ Request
  /\ assistants' = AfterStart(gs).old \o AfterStart(gs).new
  /\ versions' = versions \o AfterStart(gs).new
  /\ suspended' = {} /\ pass' = Idle
  /\ last' = IF pass.hold = NoHold THEN last ELSE [last EXCEPT ![pass.hold.id] = pass.hold.prev]
  /\ UNCHANGED <<cronVars, threads, now>>

\* POST /internal/truncate: GlobalStore.clear.
Truncate ==
  /\ Request
  /\ assistants' = Filter(assistants, LAMBDA e : IsSystem(e.id))
  /\ versions' = <<>> /\ crons' = <<>> /\ threads' = {}
  /\ pass' = Detached
  /\ UNCHANGED <<obj, suspended, last, now>>

----------------------------------------------------------------------------
\* The server runs, and clients have made their assistants.
Init ==
  /\ LET ids == System \o SetToSeq(User)
     IN assistants = [i \in DOMAIN ids |-> First(ids[i], SystemData, SystemData)]
  /\ versions = assistants
  /\ crons = <<>> /\ obj = <<>> /\ threads = Thread
  /\ suspended = {} /\ pass = Idle /\ last = [k \in CronId |-> -1]
  /\ now = 0 /\ requests = 0

AssistantStep ==
  \/ \E a \in Id, c, b \in Data : AssistantPatch(a, c, b)
  \/ \E a \in Id, d \in Data : AssistantPut(a, d, d)
  \/ \E a \in Id : AssistantDelete(a) \/ \E n \in VersionNumbers(a) : SetLatest(a, n)
  \/ \E r \in suspended : AssistantDeleted(r)

CronStep ==
  \/ \E k \in CronId, a \in Id, s \in Period :
       CronPut(k, a, s) \/ (\E t \in Thread : CronPutThread(k, a, t, s))
  \/ \E r \in suspended : CronPutDone(r)
  \/ \E i \in DOMAIN obj : CronUpdate(i)
  \/ \E k \in CronId : CronDelete(k)
  \/ \E t \in Thread : ThreadDelete(t)

Scheduler == PassBegin \/ PassStep \/ SetNextRunDate

Next ==
  \/ AssistantStep \/ CronStep \/ Scheduler \/ Tick \/ Truncate
  \/ \E gs \in SUBSET ToSet(System) : Restart(gs)

Spec == Init /\ [][Next]_vars

\* The scheduler task keeps running.
FairSpec == Spec /\ WF_vars(Scheduler)

----------------------------------------------------------------------------
\* Types of the lists, which hold one entry per id.
TypeOK ==
  /\ \A e \in ToSet(assistants) \cup ToSet(versions) : e \in Version
  /\ \A i, j \in DOMAIN assistants : i # j => assistants[i].id # assistants[j].id
  /\ \A c \in ToSet(obj) : c \in Cron
  /\ ToSet(crons) \cup ToSet(pass.list) \subseteq DOMAIN obj
  /\ \A i, j \in DOMAIN crons : i # j => obj[crons[i]].id # obj[crons[j]].id
  /\ threads \subseteq Thread /\ last \in [CronId -> -1..MaxTime]

\* The versions of a client's assistant have different numbers, also after it
\* went back to an older version or was deleted and made again (a start adds a
\* second version 1 of a graph's assistant).  What the assistant uses is on
\* record: the configuration is the one stored for its version, and graph_id
\* and context, which set_latest does not restore, are those of its newest.
VersionsSound ==
  /\ \A i, j \in DOMAIN versions :
       versions[i].id \in User /\ i # j => <<versions[i].id, versions[i].ver>> # <<versions[j].id, versions[j].ver>>
  /\ \A e \in ToSet(assistants) : e.id \in User =>
       LET vs == VersionsOf(e.id)
       IN /\ \E v \in vs : v.ver = e.ver /\ v.conf = e.conf
          /\ \E v \in vs : v.base = e.base /\ \A w \in vs : w.ver <= v.ver

\* Deleting an assistant leaves no cron of it, but for a cron whose creation
\* was suspended when the assistant was deleted; a cron with a thread never
\* outlives the thread, whatever was suspended.
CronsBacked ==
  \A i \in ToSet(crons) :
     /\ obj[i].assistant \in User => Has(obj[i].assistant) \/ obj[i].late
     /\ obj[i].thread \in threads \cup {NoThread}

\* The date of a cron is one of its schedule in its zone, but for a refused
\* update that had assigned the zone, and an update while the scheduler held
\* an older copy.
DateOnSchedule ==
  \A i \in ToSet(crons) : obj[i].stale \/ OnSchedule(obj[i].sched, obj[i].zone, obj[i].next)

\* No date of a cron is run twice, and dates are run in order, whatever is
\* updated, deleted or created again under the same id during a pass.  A stop
\* between the run and set_next_run_date lets the date be run again: last is
\* set back then.
DatesGrow == pass.hold # NoHold => pass.hold.prev < pass.hold.date

Waiting(i) ==
  i \in ToSet(crons) /\ obj[i].enabled /\ obj[i].next <= now /\ obj[i].end >= now

\* A cron that is enabled and due is run, or is not due any more.
DueFires ==
  \A i \in 1..MaxRequest : Waiting(i) ~> ~ Waiting(i) \/ (pass.hold # NoHold /\ pass.hold.id = obj[i].id)
============================================================================
