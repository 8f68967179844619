---------------------------- MODULE ClusterProofs ----------------------------
(***************************************************************************)
(* Proofs about the agreements between the workers, for every set of       *)
(* workers, runs, replicas and lease ids and for any number of faults: the *)
(* leases of the jobs, the leader of the feed, the kill switch, and the    *)
(* queue that keeps the executions of one user apart.                      *)
(***************************************************************************)
EXTENDS JobLeases, FeedLeader, KillSwitch, ExecutionQueue, FiniteSetTheorems,
        SequenceTheorems, TLAPS

---------------------------------------------------------------------------
(* The leases of the periodic jobs.                                        *)

Ids == Workers \X Uuids
Asking(b) == body[b].pc = "asking"
Releasing(b) == body[b].pc = "releasing"

LeasesTypeOK ==
    /\ key \in Ids \cup {NoLease}
    /\ lock \in [Workers -> Ids \cup {NoLease}]
    /\ \A w \in Workers : lock[w] # NoLease => lock[w][1] = w
    /\ body \in [Bodies -> [pc : {"idle", "asking", "running", "releasing"},
                            id : Ids \cup {NoLease}]]
    /\ \A b \in Bodies : body[b].pc # "idle" => body[b].id # NoLease /\ body[b].id[1] = b[1]
    /\ lost \in BOOLEAN

\* No two runs ask for, or work under, one lease id.
IdsDistinct ==
    \A b, c \in Bodies :
        b # c /\ (Asking(b) \/ Running(b)) /\ (Asking(c) \/ Running(c))
            => body[b].id # body[c].id

\* A run works under the lease the key holds.
HoldersHold == \A b \in Bodies : Running(b) => body[b].id = key

\* A run that ends while a second run of its worker is asking releases the
\* second one's id.  The second is then refused: the key still holds the lease
\* of the first, which nobody deletes any more, and which cannot expire before
\* the commands under way are answered.
Doomed ==
    \A c, d \in Bodies :
        c # d /\ Releasing(c) /\ (Asking(d) \/ Running(d)) /\ body[c].id = body[d].id
            => /\ Asking(d)
               /\ key # NoLease /\ key[1] = c[1]
               /\ \A e \in Bodies : Running(e) \/ Releasing(e) => body[e].id # key

LeasesInv ==
    /\ LeasesTypeOK
    /\ IdsDistinct
    /\ lost \/ (HoldersHold /\ Doomed)

LEMMA NoLeaseIsNoId == NoLease \notin Ids
  BY DEF NoLease, Ids

LEMMA BodiesOfWorkers == \A b \in Bodies : b[1] \in Workers
  BY LeasesAssumption

LEMMA FreshIdIsNew ==
    ASSUME NEW w \in Workers, FreshIds(w) # {}, LeasesTypeOK
    PROVE  LET id == CHOOSE i \in FreshIds(w) : TRUE
           IN  /\ id \in Ids /\ id[1] = w /\ id # NoLease /\ id # key
               /\ \A b \in Bodies : body[b].id # id
<1> DEFINE id == CHOOSE i \in FreshIds(w) : TRUE
<1>1. id \in FreshIds(w)
  OBVIOUS
<1>2. id \in {w} \X Uuids /\ id \notin InUse
  BY <1>1 DEF FreshIds
<1>3. id \in Ids /\ id[1] = w
  BY <1>2 DEF Ids
<1>4. QED
  BY <1>2, <1>3, NoLeaseIsNoId DEF InUse

LEMMA LeasesInitInv == LeasesInit => LeasesInv
<1> SUFFICES ASSUME LeasesInit PROVE LeasesInv
  OBVIOUS
<1>1. \A b \in Bodies : body[b].pc = "idle"
  BY DEF LeasesInit, Resting
<1>2. LeasesTypeOK
  BY DEF LeasesInit, LeasesTypeOK, Resting
<1> QED
  BY <1>1, <1>2 DEF LeasesInv, IdsDistinct, HoldersHold, Doomed, Asking, Running, Releasing

LEMMA LeasesStep == LeasesInv /\ [LeasesNext]_leaseVars => LeasesInv'
<1> SUFFICES ASSUME LeasesInv, [LeasesNext]_leaseVars PROVE LeasesInv'
  OBVIOUS
<1> USE NoLeaseIsNoId, BodiesOfWorkers
<1> USE DEF LeasesInv, Asking, Running, Releasing
<1>1. ASSUME NEW b \in Bodies, Tick(b) PROVE LeasesInv'
  <2> DEFINE id == CHOOSE i \in FreshIds(b[1]) : TRUE
  <2>1. /\ id \in Ids /\ id[1] = b[1] /\ id # NoLease /\ id # key
        /\ \A c \in Bodies : body[c].id # id
    BY <1>1, FreshIdIsNew DEF Tick
  <2>2. /\ lock' = [lock EXCEPT ![b[1]] = id]
        /\ body' = [body EXCEPT ![b] = [pc |-> "asking", id |-> id]]
        /\ key' = key /\ lost' = lost /\ body[b].pc = "idle"
    BY <1>1 DEF Tick
  <2> HIDE DEF id
  <2>3. LeasesTypeOK'
    BY <2>1, <2>2 DEF LeasesTypeOK
  <2>4. \A c \in Bodies : c # b => body'[c] = body[c]
    BY <2>2 DEF LeasesTypeOK
  <2>5. body'[b] = [pc |-> "asking", id |-> id]
    BY <2>2 DEF LeasesTypeOK
  <2>6. IdsDistinct'
    BY <2>1, <2>4, <2>5 DEF IdsDistinct
  <2>7. ASSUME ~lost PROVE HoldersHold' /\ Doomed'
    BY <2>1, <2>2, <2>4, <2>5, <2>7 DEF HoldersHold, Doomed
  <2> QED BY <2>2, <2>3, <2>6, <2>7
<1>2. ASSUME NEW b \in Bodies, Acquire(b) PROVE LeasesInv'
  <2>1. /\ key = NoLease /\ key' = body[b].id /\ body[b].pc = "asking"
        /\ body' = [body EXCEPT ![b].pc = "running"]
        /\ lock' = lock /\ lost' = lost
    BY <1>2 DEF Acquire, KeyFree
  <2>2. LeasesTypeOK'
    BY <2>1 DEF LeasesTypeOK
  <2>3. \A c \in Bodies : c # b => body'[c] = body[c]
    BY <2>1 DEF LeasesTypeOK
  <2>4. body'[b].pc = "running" /\ body'[b].id = body[b].id
    BY <2>1 DEF LeasesTypeOK
  <2>5. IdsDistinct'
    BY <2>1, <2>3, <2>4 DEF IdsDistinct
  <2>6. ASSUME ~lost PROVE HoldersHold' /\ Doomed'
    BY <2>1, <2>3, <2>4, <2>6 DEF HoldersHold, Doomed, LeasesTypeOK
  <2> QED BY <2>1, <2>2, <2>5, <2>6
<1>3. ASSUME NEW b \in Bodies, Refused(b) PROVE LeasesInv'
  <2>1. /\ key' = key /\ body[b].pc = "asking" /\ lost' = lost
        /\ body' = [body EXCEPT ![b] = Resting]
        /\ lock' = [lock EXCEPT ![b[1]] = NoLease]
    BY <1>3 DEF Refused
  <2>2. LeasesTypeOK'
    BY <2>1 DEF LeasesTypeOK, Resting
  <2>3. \A c \in Bodies : c # b => body'[c] = body[c]
    BY <2>1 DEF LeasesTypeOK
  <2>4. body'[b].pc = "idle"
    BY <2>1 DEF LeasesTypeOK, Resting
  <2>5. IdsDistinct'
    BY <2>1, <2>3, <2>4 DEF IdsDistinct
  <2>6. ASSUME ~lost PROVE HoldersHold' /\ Doomed'
    BY <2>1, <2>3, <2>4, <2>6 DEF HoldersHold, Doomed
  <2> QED BY <2>1, <2>2, <2>5, <2>6
<1>4. ASSUME NEW b \in Bodies, AcquireFails(b) PROVE LeasesInv'
  <2>1. /\ key' = key /\ body[b].pc = "asking" /\ lost' = TRUE
        /\ body' = [body EXCEPT ![b].pc = "running"]
        /\ lock' = [lock EXCEPT ![b[1]] = NoLease]
    BY <1>4 DEF AcquireFails
  <2>2. LeasesTypeOK'
    BY <2>1 DEF LeasesTypeOK
  <2>3. \A c \in Bodies : body'[c].id = body[c].id /\ (c # b => body'[c] = body[c])
    BY <2>1 DEF LeasesTypeOK
  <2>5. IdsDistinct'
    BY <2>1, <2>3 DEF IdsDistinct
  <2> QED BY <2>1, <2>2, <2>5
<1>5. ASSUME NEW b \in Bodies, Finish(b) PROVE LeasesInv'
  <2>1. /\ key' = key /\ body[b].pc = "running" /\ lost' = lost /\ lock' = lock
        /\ body' = [body EXCEPT ![b] = IF lock[b[1]] = NoLease THEN Resting
                                       ELSE [pc |-> "releasing", id |-> lock[b[1]]]]
    BY <1>5 DEF Finish
  <2>2. LeasesTypeOK'
    BY <2>1 DEF LeasesTypeOK, Resting
  <2>3. \A c \in Bodies : c # b => body'[c] = body[c]
    BY <2>1 DEF LeasesTypeOK
  <2>4. \/ body'[b].pc = "idle"
        \/ body'[b].pc = "releasing" /\ body'[b].id = lock[b[1]] /\ lock[b[1]] # NoLease
    BY <2>1 DEF LeasesTypeOK, Resting
  <2>5. IdsDistinct'
    BY <2>1, <2>3, <2>4 DEF IdsDistinct
  <2>6. ASSUME ~lost PROVE HoldersHold'
    BY <2>1, <2>3, <2>4, <2>6 DEF HoldersHold
  <2>7. ASSUME ~lost PROVE Doomed'
    <3>1. SUFFICES ASSUME NEW c \in Bodies, NEW d \in Bodies, c # d, Releasing(c)',
                          (Asking(d) \/ Running(d))', (body[c].id = body[d].id)'
                   PROVE  /\ Asking(d)'
                          /\ key # NoLease /\ key[1] = c[1]
                          /\ \A e \in Bodies : (Running(e) \/ Releasing(e))' => body'[e].id # key
      BY <2>1 DEF Doomed
    <3>2. body[b].id = key /\ key # NoLease /\ key[1] = b[1]
      BY <2>1, <2>7 DEF HoldersHold, LeasesTypeOK
    <3>3. \A e \in Bodies : e # b => ~Running(e)
      BY <2>1, <2>7, <3>2 DEF HoldersHold, IdsDistinct
    <3>4. d # b /\ body'[d] = body[d]
      BY <2>3, <2>4, <3>1
    <3>5. \A e \in Bodies : e # b /\ Releasing(e) => body[e].id # key
      BY <2>1, <2>7, <3>2 DEF Doomed
    <3>6. CASE c # b
      BY <2>1, <2>3, <2>7, <3>1, <3>2, <3>4, <3>6 DEF Doomed
    <3>7. CASE c = b
      <4>1. Asking(d)
        BY <3>1, <3>3, <3>4
      <4>2. body[d].id # key
        BY <2>1, <3>2, <3>4, <4>1 DEF IdsDistinct
      <4>3. body'[b].id # key
        BY <3>1, <3>4, <3>7, <4>2
      <4> QED BY <2>3, <3>2, <3>3, <3>4, <3>5, <3>7, <4>1, <4>3
    <3> QED BY <3>6, <3>7
  <2> QED BY <2>1, <2>2, <2>5, <2>6, <2>7
<1>6. ASSUME NEW b \in Bodies, Release(b) PROVE LeasesInv'
  <2>1. /\ body[b].pc = "releasing" /\ lost' = lost
        /\ key' = key \/ (key' = NoLease /\ key = body[b].id)
        /\ body' = [body EXCEPT ![b] = Resting]
        /\ lock' = [lock EXCEPT ![b[1]] = NoLease]
    BY <1>6 DEF Release, Deletes
  <2>2. LeasesTypeOK'
    BY <2>1 DEF LeasesTypeOK, Resting
  <2>3. \A c \in Bodies : c # b => body'[c] = body[c]
    BY <2>1 DEF LeasesTypeOK
  <2>4. body'[b].pc = "idle"
    BY <2>1 DEF LeasesTypeOK, Resting
  <2>5. IdsDistinct'
    BY <2>1, <2>3, <2>4 DEF IdsDistinct
  <2>6. ASSUME ~lost PROVE HoldersHold'
    BY <2>1, <2>3, <2>4, <2>6 DEF HoldersHold, Doomed
  <2>7. ASSUME ~lost PROVE Doomed'
    BY <2>1, <2>3, <2>4, <2>7 DEF Doomed
  <2> QED BY <2>1, <2>2, <2>5, <2>6, <2>7
<1>7. CASE Expire
  <2>1. /\ key # NoLease /\ key' = NoLease /\ lock' = lock /\ body' = body
        /\ lost' = (lost \/ \E b \in Bodies : Running(b) /\ body[b].id = key)
        /\ ~CommandSent(key[1])
    BY <1>7 DEF Expire
  <2>2. LeasesTypeOK' /\ IdsDistinct'
    BY <2>1 DEF LeasesTypeOK, IdsDistinct
  <2>3. ASSUME ~lost' PROVE HoldersHold' /\ Doomed'
    BY <2>1, <2>3 DEF HoldersHold, Doomed, CommandSent
  <2> QED BY <2>2, <2>3
<1>8. CASE MissRenewal
  BY <1>8 DEF MissRenewal, LeasesTypeOK, IdsDistinct
<1>9. ASSUME NEW w \in Workers, CrashWorker(w) PROVE LeasesInv'
  <2>1. /\ key' = key /\ lost' = lost
        /\ lock' = [lock EXCEPT ![w] = NoLease]
        /\ body' = [b \in Bodies |-> IF b[1] = w THEN Resting ELSE body[b]]
    BY <1>9 DEF CrashWorker
  <2>2. LeasesTypeOK'
    BY <2>1 DEF LeasesTypeOK, Resting
  <2>3. \A b \in Bodies : body'[b] = body[b] \/ body'[b].pc = "idle"
    BY <2>1 DEF Resting
  <2>4. IdsDistinct' /\ (lost \/ (HoldersHold' /\ Doomed'))
    BY <2>1, <2>3 DEF IdsDistinct, HoldersHold, Doomed
  <2> QED BY <2>1, <2>2, <2>4
<1>10. CASE UNCHANGED leaseVars
  BY <1>10 DEF leaseVars, LeasesTypeOK, IdsDistinct, HoldersHold, Doomed
<1> QED
  BY <1>1, <1>2, <1>3, <1>4, <1>5, <1>6, <1>7, <1>8, <1>9, <1>10 DEF LeasesNext

\* Two runs of a job overlap only after Redis failed or a lease was lost under a
\* run, whatever the timers, crashes and releases of any number of workers do.
THEOREM LeasesExclusive == LeasesSpec => []ExclusiveUnlessLost
<1>1. LeasesInv => ExclusiveUnlessLost
  BY DEF LeasesInv, IdsDistinct, HoldersHold, ExclusiveUnlessLost, Running, Asking
<1> QED BY <1>1, LeasesInitInv, LeasesStep, PTL DEF LeasesSpec

---------------------------------------------------------------------------
(* The leader of the price feed.                                           *)

FeedSpec == FeedInit /\ [][FeedNext]_feedVars

FeedTypeOK ==
    /\ mine \in [Replicas -> BOOLEAN]
    /\ renewing \in [Replicas -> BOOLEAN]
    /\ leads \in [Replicas -> BOOLEAN]
    /\ poll \in [Replicas -> {"none", "taking", "asking"}]
    /\ stopped \in [Replicas -> BOOLEAN]
    /\ doubtful \in BOOLEAN

\* A replica that asks for the lease does not lead, and until something was lost
\* a leader owns the lease, knows its id and renews it.
FeedInv ==
    /\ FeedTypeOK
    /\ \A r \in Replicas : poll[r] = "taking" => ~leads[r]
    /\ doubtful \/ \A r \in Replicas : leads[r] => lease = r /\ mine[r] /\ renewing[r]

LEMMA FeedStep == FeedInv /\ [FeedNext]_feedVars => FeedInv'
<1> SUFFICES ASSUME FeedInv, [FeedNext]_feedVars PROVE FeedInv'
  OBVIOUS
<1> USE FeedAssumption DEF FeedInv, FeedTypeOK
<1>1. ASSUME NEW r \in Replicas, Poll(r) PROVE FeedInv'
  BY <1>1 DEF Poll
<1>2. ASSUME NEW r \in Replicas, TakeLease(r) PROVE FeedInv'
  BY <1>2 DEF TakeLease, Lead
<1>3. ASSUME NEW r \in Replicas, LeaseHeld(r) PROVE FeedInv'
  BY <1>3 DEF LeaseHeld
<1>4. ASSUME NEW r \in Replicas, LeadUncoordinated(r) PROVE FeedInv'
  BY <1>4 DEF LeadUncoordinated, Lead
<1>5. ASSUME NEW r \in Replicas, ConfirmLead(r) PROVE FeedInv'
  BY <1>5 DEF ConfirmLead, StepDown
<1>6. ASSUME NEW r \in Replicas, StopReplica(r) PROVE FeedInv'
  BY <1>6 DEF StopReplica, StepDown
<1>7. ASSUME NEW r \in Replicas, Restart(r) \/ CrashReplica(r) PROVE FeedInv'
  BY <1>7 DEF Restart, CrashReplica, Reboot, StepDown
<1>8. CASE LeaseExpires
  <2>1. /\ lease # Nobody
        /\ mine' = [mine EXCEPT ![lease] = FALSE]
        /\ UNCHANGED <<renewing, leads, poll, stopped>>
        /\ \/ ~Extended /\ doubtful' = doubtful
           \/ doubtful' = TRUE
    BY <1>8 DEF LeaseExpires
  <2>2. ASSUME ~doubtful', NEW r \in Replicas PROVE ~leads[r]
    BY <2>1, <2>2 DEF Extended
  <2> QED BY <2>1, <2>2
<1>9. CASE UNCHANGED feedVars
  BY <1>9 DEF feedVars
<1> QED
  BY <1>1, <1>2, <1>3, <1>4, <1>5, <1>6, <1>7, <1>8, <1>9 DEF FeedNext

\* Two replicas are connected to the primary feed at once only after a lease was
\* lost under its leader or Redis failed.
THEOREM FeedHasOneLeader == FeedSpec => []SoleLeader
<1>1. FeedInit => FeedInv
  BY DEF FeedInit, FeedInv, FeedTypeOK
<1>2. FeedInv => SoleLeader
  <2> SUFFICES ASSUME FeedInv, ~doubtful PROVE ~(Cardinality(Leaders) > 1)
    BY DEF SoleLeader
  <2>1. Leaders \subseteq {lease}
    BY DEF FeedInv, Leaders
  <2>2. IsFiniteSet({lease}) /\ Cardinality({lease}) = 1
    BY FS_Singleton
  <2>3. Cardinality(Leaders) <= 1 /\ Cardinality(Leaders) \in Nat
    BY <2>1, <2>2, FS_Subset, FS_CardinalityType
  <2> QED BY <2>3
<1> QED BY <1>1, <1>2, FeedStep, PTL DEF FeedSpec

---------------------------------------------------------------------------
(* The kill switch.                                                        *)

SwitchSpec == SwitchInit /\ [][SwitchNext]_switchVars

SwitchTypeOK ==
    /\ halted \in [Servers -> BOOLEAN]
    /\ row \in BOOLEAN
    /\ change \in [Servers -> [pc : {"none", "writing", "publishing"}, on : BOOLEAN]]
    /\ channel \in [Servers -> Seq(BOOLEAN)]
    /\ ordered \in BOOLEAN
    /\ muddled \in BOOLEAN

\* While nothing was muddled there is one change at a time: it carries the flag
\* asked for, finds every channel empty, has written the row when it publishes,
\* and has left one message at most for each worker that lags behind.
SwitchInv ==
    /\ SwitchTypeOK
    /\ muddled \/
        /\ \A v, w \in Servers : change[v] # Calm /\ change[w] # Calm => v = w
        /\ \A w \in Servers : change[w] # Calm =>
              /\ change[w].on = ordered
              /\ halted[w] = ordered
              /\ change[w].pc = "publishing" => row = ordered
              /\ \A v \in Servers : channel[v] = <<>>
        /\ (\A w \in Servers : change[w] = Calm) =>
              /\ row = ordered
              /\ \A w \in Servers : \/ channel[w] = <<>> /\ halted[w] = ordered
                                    \/ channel[w] = <<ordered>>

LEMMA SwitchStep == SwitchInv /\ [SwitchNext]_switchVars => SwitchInv'
<1> SUFFICES ASSUME SwitchInv, [SwitchNext]_switchVars PROVE SwitchInv'
  OBVIOUS
<1> USE DEF SwitchInv, SwitchTypeOK, Calm
<1>1. ASSUME NEW w \in Servers, NEW on \in BOOLEAN, Toggle(w, on) PROVE SwitchInv'
  BY <1>1 DEF Toggle, InTransit
<1>2. ASSUME NEW w \in Servers, Written(w) PROVE SwitchInv'
  <2>1. /\ change[w].pc = "writing" /\ row' = change[w].on
        /\ change' = [change EXCEPT ![w].pc = "publishing"]
        /\ UNCHANGED <<halted, channel, ordered, muddled>>
    BY <1>2 DEF Written
  <2>2. change[w] # Calm /\ change'[w] # Calm
    BY <2>1
  <2>3. change'[w].on = change[w].on /\ \A v \in Servers : v # w => change'[v] = change[v]
    BY <2>1
  <2>4. SwitchTypeOK'
    BY <2>1
  <2>5. muddled \/ (change[w].on = ordered /\ halted[w] = ordered
                      /\ \A v \in Servers : v # w => change[v] = Calm)
    BY <2>2
  <2> HIDE DEF Calm
  <2> QED BY <2>1, <2>2, <2>3, <2>4, <2>5
<1>3. ASSUME NEW w \in Servers, WriteFails(w) PROVE SwitchInv'
  BY <1>3 DEF WriteFails
<1>4. ASSUME NEW w \in Servers, Publish(w) PROVE SwitchInv'
  <2>1. /\ change[w].pc = "publishing"
        /\ \/ channel' = Announce(w) /\ muddled' = muddled
           \/ channel' = channel /\ muddled' = TRUE
        /\ change' = [change EXCEPT ![w] = Calm]
        /\ UNCHANGED <<halted, row, ordered>>
    BY <1>4 DEF Publish
  <2>6. change[w] # Calm
    BY <2>1
  <2>2. Announce(w) \in [Servers -> Seq(BOOLEAN)]
    BY DEF Announce
  <2>3. SwitchTypeOK'
    BY <2>1, <2>2
  <2>4. ASSUME ~muddled' PROVE \A v \in Servers : change'[v] = Calm
    BY <2>1, <2>4, <2>6
  <2>5. ASSUME ~muddled' PROVE row = ordered /\ \A v \in Servers : channel'[v] = <<ordered>>
    BY <2>1, <2>5, <2>6 DEF Announce
  <2> QED BY <2>1, <2>3, <2>4, <2>5
<1>5. ASSUME NEW w \in Servers, Sync(w) PROVE SwitchInv'
  BY <1>5 DEF Sync
<1>6. ASSUME NEW w \in Servers, Reload(w) PROVE SwitchInv'
  <2>1. /\ \/ halted' = [halted EXCEPT ![w] = row] /\ muddled' = (muddled \/ InTransit)
           \/ halted' = [halted EXCEPT ![w] = FALSE] /\ muddled' = TRUE
        /\ change' = [change EXCEPT ![w] = Calm]
        /\ channel' = [channel EXCEPT ![w] = <<>>]
        /\ UNCHANGED <<row, ordered>>
    BY <1>6 DEF Reload
  <2>2. SwitchTypeOK'
    <3>1. channel' \in [Servers -> Seq(BOOLEAN)]
      BY <2>1, EmptySeq
    <3>2. muddled' \in BOOLEAN
      BY <2>1, Zenon DEF InTransit
    <3>3. halted' \in [Servers -> BOOLEAN] /\ change' \in [Servers -> [pc : {"none", "writing", "publishing"}, on : BOOLEAN]]
      BY <2>1
    <3> QED BY <2>1, <3>1, <3>2, <3>3
  <2>3. ASSUME ~muddled'
        PROVE  /\ ~muddled /\ row = ordered
               /\ \A v \in Servers : change[v] = Calm /\ channel[v] = <<>> /\ halted[v] = ordered
    <3>1. ~muddled /\ ~InTransit
      BY <2>1, <2>3, Zenon
    <3>2. \A v \in Servers : change[v] = Calm /\ channel[v] = <<>>
      BY <3>1, Zenon DEF InTransit
    <3> HIDE DEF Calm
    <3>3. row = ordered /\ \A v \in Servers : \/ channel[v] = <<>> /\ halted[v] = ordered
                                              \/ channel[v] = <<ordered>>
      BY <3>1, <3>2, Zenon
    <3>4. <<ordered>> # <<>>
      OBVIOUS
    <3> QED BY <3>1, <3>2, <3>3, <3>4, Zenon
  <2>4. ASSUME ~muddled'
        PROVE  \A v \in Servers : change'[v] = Calm /\ channel'[v] = <<>> /\ halted'[v] = ordered
    BY <2>1, <2>3, <2>4
  <2> QED BY <2>1, <2>2, <2>3, <2>4
<1>7. CASE UNCHANGED switchVars
  BY <1>7 DEF switchVars
<1> QED
  BY <1>1, <1>2, <1>3, <1>4, <1>5, <1>6, <1>7 DEF SwitchNext

\* When nothing is under way every worker and the row have the flag the last
\* change asked for, unless changes overlapped or something was lost.
THEOREM StopReachesEverybody == SwitchSpec => []StopReachesAll
<1>1. SwitchInit => SwitchInv
  <2> SUFFICES ASSUME SwitchInit PROVE SwitchInv
    OBVIOUS
  <2>1. SwitchTypeOK
    <3>1. channel \in [Servers -> Seq(BOOLEAN)]
      BY EmptySeq DEF SwitchInit
    <3> QED BY <3>1 DEF SwitchInit, SwitchTypeOK, Calm
  <2>2. \A w \in Servers : change[w] = Calm /\ channel[w] = <<>> /\ halted[w] = FALSE
    BY DEF SwitchInit
  <2> QED BY <2>1, <2>2 DEF SwitchInit, SwitchInv
<1>2. SwitchInv => StopReachesAll
  BY DEF SwitchInv, StopReachesAll, InTransit
<1> QED BY <1>1, <1>2, SwitchStep, PTL DEF SwitchSpec
---------------------------------------------------------------------------
(* The queue of executions, with and without Redis.                        *)

QueueSpec == QueueInit /\ [][QueueNext]_queueVars

QueueTypeOK ==
    /\ noRedis \subseteq Hosts
    /\ call \in [Calls -> {"new", "counted", "full", "waiting", "running", "unlocking",
                           "leaving", "queued", "done"}]
    /\ task \in [Calls -> {"none", "preparing", "transacting", "ended"}]
    /\ cancelled \in [Calls -> BOOLEAN]
    /\ holder \in Calls \cup {Free}
    /\ chain \in [Hosts -> Seq(Calls)]
    /\ overstayed \in BOOLEAN

\* A task is at work only for a request that waits for it, or was told to stop.
Attended == \A c \in Calls : Working(c) => call[c] = "running" \/ cancelled[c]

\* With Redis: the request that runs holds the lock.
LockHeld ==
    \A c \in Calls : ~InMemory(c) /\ call[c] \in {"running", "unlocking"} => holder = c

\* Without: a request is in its worker's chain, and the one that runs is first.
InChain(c) == \E i \in 1 .. Len(chain[HostOf[c]]) : chain[HostOf[c]][i] = c
ChainKept ==
    \A c \in Calls : InMemory(c) =>
        /\ call[c] \in {"queued", "running"} => InChain(c)
        /\ call[c] = "running" => chain[HostOf[c]][1] = c

\* The two halves of the queue meet in no request.
Apart ==
    \A c \in Calls :
        /\ InMemory(c) => call[c] \in {"new", "queued", "running", "done"}
        /\ call[c] = "queued" => InMemory(c)

QueueInv ==
    /\ QueueTypeOK
    /\ Attended
    /\ overstayed \/ LockHeld
    /\ ChainKept
    /\ Apart

LEMMA HostsOfCalls == \A c \in Calls : HostOf[c] \in Hosts
  BY QueueAssumption

LEMMA QueueInitInv == QueueInit => QueueInv
<1> SUFFICES ASSUME QueueInit PROVE QueueInv
  OBVIOUS
<1>1. QueueTypeOK
  BY QueueAssumption, EmptySeq DEF QueueInit, QueueTypeOK
<1> QED
  BY <1>1 DEF QueueInit, QueueInv, Attended, Working, LockHeld, ChainKept, Apart

\* A step that neither starts nor ends a run and leaves tasks, lock and chains.
LEMMA OtherCallMoves ==
    ASSUME QueueInv, NEW c \in Calls, NEW pc, call' = [call EXCEPT ![c] = pc],
           pc \in {"counted", "full", "waiting", "leaving", "done"},
           call[c] \in {"new", "counted", "full", "waiting", "unlocking", "leaving"},
           InMemory(c) => pc = "done",
           UNCHANGED <<noRedis, task, cancelled, holder, chain, overstayed>>
    PROVE  QueueInv'
<1> USE DEF QueueInv, QueueTypeOK
<1>1. \A d \in Calls : d # c => call'[d] = call[d]
  OBVIOUS
<1>2. call'[c] = pc
  OBVIOUS
<1>3. QueueTypeOK'
  OBVIOUS
<1>4. Attended'
  BY <1>1, <1>2 DEF Attended, Working
<1>5. LockHeld => LockHeld'
  BY <1>1, <1>2 DEF LockHeld, InMemory
<1>6. ChainKept' /\ Apart'
  BY <1>1, <1>2 DEF ChainKept, Apart, InMemory, InChain
<1> QED BY <1>3, <1>4, <1>5, <1>6

\* A request's run ends: its task has ended or been told to stop.
LEMMA RunReturns ==
    ASSUME QueueInv, NEW c \in Calls, NEW a, call[c] = "running", Returned(c, a),
           task' \in [Calls -> {"none", "preparing", "transacting", "ended"}],
           cancelled' \in [Calls -> BOOLEAN],
           \A d \in Calls : d # c => task'[d] = task[d] /\ cancelled'[d] = cancelled[d],
           task'[c] = "ended" \/ cancelled'[c],
           UNCHANGED <<noRedis, holder, overstayed>>
    PROVE  QueueInv'
<1> USE HostsOfCalls DEF QueueInv
<1> DEFINE h == HostOf[c]
<1>1. /\ call' = [call EXCEPT ![c] = IF InMemory(c) THEN "done" ELSE "unlocking"]
      /\ chain' = IF InMemory(c) THEN [chain EXCEPT ![h] = Tail(chain[h])] ELSE chain
  BY DEF Returned, Goto, Resolved
<1>2. \A d \in Calls : d # c => call'[d] = call[d]
  BY <1>1 DEF QueueTypeOK
<1>3. call'[c] = IF InMemory(c) THEN "done" ELSE "unlocking"
  BY <1>1 DEF QueueTypeOK
<1>4. \A d \in Calls : InMemory(d)' = InMemory(d)
  BY DEF InMemory
<1>5. Attended'
  BY <1>2, <1>3 DEF Attended, Working
<1>6. LockHeld => LockHeld'
  BY <1>2, <1>3, <1>4 DEF LockHeld
<1>7. Apart'
  BY <1>2, <1>3, <1>4 DEF Apart
<1>8. CASE ~InMemory(c)
  <2>1. chain' = chain
    BY <1>1, <1>8
  <2>2. QueueTypeOK'
    BY <1>1, <1>8, <2>1 DEF QueueTypeOK
  <2>3. ChainKept'
    BY <1>2, <1>3, <1>4, <1>8, <2>1 DEF ChainKept, InChain
  <2> QED BY <1>5, <1>6, <1>7, <2>2, <2>3
<1>9. CASE InMemory(c)
  <2>1. chain[h] \in Seq(Calls) /\ Len(chain[h]) > 0 /\ chain[h][1] = c
    BY <1>9 DEF ChainKept, InChain, QueueTypeOK
  <2>2. Tail(chain[h]) \in Seq(Calls) /\ Len(Tail(chain[h])) = Len(chain[h]) - 1
        /\ \A i \in 1 .. Len(chain[h]) - 1 : Tail(chain[h])[i] = chain[h][i + 1]
    BY <2>1
  <2>3. chain'[h] = Tail(chain[h]) /\ \A g \in Hosts : g # h => chain'[g] = chain[g]
    BY <1>1, <1>9 DEF QueueTypeOK
  <2>4. QueueTypeOK'
    BY <1>1, <1>9, <2>2 DEF QueueTypeOK
  <2>5. \A d \in Calls : InMemory(d) /\ HostOf[d] = h /\ d # c => call[d] # "running"
    BY <2>1 DEF ChainKept
  <2>6. ASSUME NEW d \in Calls, InMemory(d), d # c, call[d] \in {"queued", "running"}
        PROVE  InChain(d)'
    <3>1. CASE HostOf[d] = h
      <4>1. PICK i \in 1 .. Len(chain[h]) : chain[h][i] = d
        BY <2>6, <3>1 DEF ChainKept, InChain
      <4>2. i # 1
        BY <2>1, <2>6, <4>1
      <4>3. i - 1 \in 1 .. Len(chain'[h]) /\ chain'[h][i - 1] = d
        BY <2>1, <2>2, <2>3, <4>1, <4>2
      <4> QED BY <3>1, <4>3 DEF InChain
    <3>2. CASE HostOf[d] # h
      BY <2>3, <2>6, <3>2 DEF ChainKept, InChain
    <3> QED BY <3>1, <3>2
  <2>7. ChainKept'
    BY <1>2, <1>3, <1>4, <1>9, <2>3, <2>5, <2>6 DEF ChainKept
  <2> QED BY <1>5, <1>6, <1>7, <2>4, <2>7
<1> QED BY <1>8, <1>9

LEMMA QueueNextInv == QueueInv /\ [QueueNext]_queueVars => QueueInv'
<1> SUFFICES ASSUME QueueInv, [QueueNext]_queueVars PROVE QueueInv'
  OBVIOUS
<1> USE HostsOfCalls
<1>1. ASSUME NEW c \in Calls,
             \/ Increment(c) \/ CountFails(c) \/ Counted(c) \/ TurnedAway(c)
             \/ LockTimeout(c) \/ Leave(c)
      PROVE QueueInv'
  <2>1. \E pc \in {"counted", "full", "waiting", "leaving", "done"} :
             call' = [call EXCEPT ![c] = pc] /\ (InMemory(c) => pc = "done")
    <3>1. CASE Increment(c)
      <4>1. CASE Overfull(depth + 1)
        BY <3>1, <4>1 DEF Increment, Goto
      <4>2. CASE ~Overfull(depth + 1)
        BY <3>1, <4>2 DEF Increment, Goto
      <4> QED BY <4>1, <4>2
    <3>2. CASE CountFails(c)
      BY <3>2 DEF CountFails, Goto
    <3>3. CASE Counted(c) \/ TurnedAway(c) \/ LockTimeout(c)
      BY <3>3 DEF Counted, TurnedAway, LockTimeout, Goto, QueueInv, Apart
    <3>4. CASE Leave(c)
      BY <3>4 DEF Leave, Goto
    <3> QED BY <1>1, <3>1, <3>2, <3>3, <3>4
  <2>2. /\ call[c] \in {"new", "counted", "full", "waiting", "unlocking", "leaving"}
        /\ UNCHANGED <<noRedis, task, cancelled, holder, chain, overstayed>>
    BY <1>1 DEF Increment, CountFails, Counted, TurnedAway, LockTimeout, Leave
  <2>3. PICK pc \in {"counted", "full", "waiting", "leaving", "done"} :
             call' = [call EXCEPT ![c] = pc] /\ (InMemory(c) => pc = "done")
    BY <2>1
  <2> QED BY <2>2, <2>3, OtherCallMoves
<1>2. ASSUME NEW c \in Calls, GetLock(c) PROVE QueueInv'
  <2>1. /\ call[c] = "waiting" /\ holder = Free /\ holder' = c
        /\ call' = [call EXCEPT ![c] = "running"]
        /\ task' = [task EXCEPT ![c] = "preparing"]
        /\ UNCHANGED <<noRedis, cancelled, chain, overstayed>>
    BY <1>2 DEF GetLock, LockTaken, StartTask, Goto
  <2>2. ~InMemory(c)
    BY <2>1 DEF QueueInv, Apart
  <2>3. \A d \in Calls : d # c => call'[d] = call[d] /\ task'[d] = task[d]
    BY <2>1 DEF QueueInv, QueueTypeOK
  <2>4. call'[c] = "running"
    BY <2>1 DEF QueueInv, QueueTypeOK
  <2>5. QueueTypeOK'
    BY <2>1 DEF QueueInv, QueueTypeOK
  <2>6. Attended'
    BY <2>1, <2>3, <2>4 DEF QueueInv, Attended, Working
  <2>7. LockHeld => LockHeld'
    BY <2>1, <2>3, <2>4, QueueAssumption DEF QueueInv, LockHeld, InMemory
  <2>8. ChainKept' /\ Apart'
    BY <2>1, <2>2, <2>3 DEF QueueInv, ChainKept, Apart, InMemory, InChain
  <2> QED BY <2>1, <2>5, <2>6, <2>7, <2>8 DEF QueueInv
<1>3. ASSUME NEW c \in Calls, LockFails(c) PROVE QueueInv'
  <2>1. /\ call[c] = "waiting"
        /\ holder' = holder \/ (holder = Free /\ holder' = c)
        /\ call' = [call EXCEPT ![c] = "leaving"]
        /\ UNCHANGED <<noRedis, task, cancelled, chain, overstayed>>
    BY <1>3 DEF LockFails, LockTaken, Goto
  <2>2. ~InMemory(c)
    BY <2>1 DEF QueueInv, Apart
  <2>3. \A d \in Calls : d # c => call'[d] = call[d]
    BY <2>1 DEF QueueInv, QueueTypeOK
  <2>4. call'[c] = "leaving"
    BY <2>1 DEF QueueInv, QueueTypeOK
  <2>5. QueueTypeOK'
    BY <2>1 DEF QueueInv, QueueTypeOK
  <2>6. Attended'
    BY <2>1, <2>3, <2>4 DEF QueueInv, Attended, Working
  <2>7. LockHeld => LockHeld'
    BY <2>1, <2>3, <2>4, QueueAssumption DEF QueueInv, LockHeld, InMemory
  <2>8. ChainKept' /\ Apart'
    BY <2>1, <2>2, <2>3 DEF QueueInv, ChainKept, Apart, InMemory, InChain
  <2> QED BY <2>1, <2>5, <2>6, <2>7, <2>8 DEF QueueInv
<1>4. ASSUME NEW c \in Calls, Unlock(c) PROVE QueueInv'
  <2>1. /\ call[c] = "unlocking"
        /\ holder' = IF holder = c THEN Free ELSE holder
        /\ call' = [call EXCEPT ![c] = "leaving"]
        /\ UNCHANGED <<noRedis, task, cancelled, chain, overstayed>>
    BY <1>4 DEF Unlock, Goto
  <2>2. ~InMemory(c)
    BY <2>1 DEF QueueInv, Apart
  <2>3. \A d \in Calls : d # c => call'[d] = call[d]
    BY <2>1 DEF QueueInv, QueueTypeOK
  <2>4. call'[c] = "leaving"
    BY <2>1 DEF QueueInv, QueueTypeOK
  <2>5. QueueTypeOK'
    BY <2>1 DEF QueueInv, QueueTypeOK
  <2>6. Attended'
    BY <2>1, <2>3, <2>4 DEF QueueInv, Attended, Working
  <2>7. LockHeld => LockHeld'
    BY <2>1, <2>3, <2>4 DEF QueueInv, LockHeld, InMemory
  <2>8. ChainKept' /\ Apart'
    BY <2>1, <2>2, <2>3 DEF QueueInv, ChainKept, Apart, InMemory, InChain
  <2> QED BY <2>1, <2>5, <2>6, <2>7, <2>8 DEF QueueInv
<1>5. ASSUME NEW c \in Calls, JoinChain(c) PROVE QueueInv'
  <2>1. CASE call' = [call EXCEPT ![c] = "done"] /\ UNCHANGED chain
    BY <1>5, <2>1, OtherCallMoves DEF JoinChain
  <2>2. CASE /\ chain' = [chain EXCEPT ![HostOf[c]] = Append(chain[HostOf[c]], c)]
             /\ call' = [call EXCEPT ![c] = "queued"]
    <3>1. /\ call[c] = "new" /\ InMemory(c)
          /\ UNCHANGED <<noRedis, task, cancelled, holder, overstayed>>
      BY <1>5 DEF JoinChain
    <3>2. \A d \in Calls : d # c => call'[d] = call[d]
      BY <2>2 DEF QueueInv, QueueTypeOK
    <3>3. call'[c] = "queued"
      BY <2>2 DEF QueueInv, QueueTypeOK
    <3>4. chain' \in [Hosts -> Seq(Calls)]
      BY <2>2 DEF QueueInv, QueueTypeOK
    <3>5. QueueTypeOK'
      BY <2>2, <3>1, <3>4 DEF QueueInv, QueueTypeOK
    <3>6. Attended'
      BY <3>1, <3>2, <3>3 DEF QueueInv, Attended, Working
    <3>7. LockHeld => LockHeld'
      BY <3>1, <3>2, <3>3 DEF QueueInv, LockHeld, InMemory
    <3>8. /\ \A g \in Hosts : \A i \in 1 .. Len(chain[g]) :
                i \in 1 .. Len(chain'[g]) /\ chain'[g][i] = chain[g][i]
          /\ InChain(c)'
      <4>1. ASSUME NEW g \in Hosts, NEW i \in 1 .. Len(chain[g])
            PROVE  i \in 1 .. Len(chain'[g]) /\ chain'[g][i] = chain[g][i]
        BY <2>2, <4>1 DEF QueueInv, QueueTypeOK
      <4>2. /\ Len(chain'[HostOf[c]]) = Len(chain[HostOf[c]]) + 1
            /\ Len(chain[HostOf[c]]) \in Nat
            /\ chain'[HostOf[c]][Len(chain[HostOf[c]]) + 1] = c
        BY <2>2 DEF QueueInv, QueueTypeOK
      <4>3. InChain(c)'
        BY <4>2 DEF InChain
      <4> QED BY <4>1, <4>3
    <3>9. ASSUME NEW d \in Calls, d # c, InMemory(d), call[d] \in {"queued", "running"}
          PROVE  InChain(d)' /\ (call[d] = "running" => chain'[HostOf[d]][1] = d)
      <4>1. PICK i \in 1 .. Len(chain[HostOf[d]]) : chain[HostOf[d]][i] = d
        BY <3>9 DEF QueueInv, ChainKept, InChain
      <4>2. 1 \in 1 .. Len(chain[HostOf[d]])
        BY <4>1
      <4> QED BY <3>8, <3>9, <4>1, <4>2 DEF QueueInv, ChainKept, InChain
    <3>10. ChainKept' /\ Apart'
      BY <3>1, <3>2, <3>3, <3>8, <3>9 DEF QueueInv, ChainKept, Apart, InMemory
    <3> QED BY <3>1, <3>5, <3>6, <3>7, <3>10 DEF QueueInv
  <2> QED BY <1>5, <2>1, <2>2 DEF JoinChain, Goto
<1>6. ASSUME NEW c \in Calls, RunInTurn(c) PROVE QueueInv'
  <2>1. /\ call[c] = "queued" /\ Head(chain[HostOf[c]]) = c
        /\ call' = [call EXCEPT ![c] = "running"]
        /\ task' = [task EXCEPT ![c] = "preparing"]
        /\ UNCHANGED <<noRedis, cancelled, holder, chain, overstayed>>
    BY <1>6 DEF RunInTurn, NextInChain, StartTask, Goto
  <2>3. \A d \in Calls : d # c => call'[d] = call[d] /\ task'[d] = task[d]
    BY <2>1 DEF QueueInv, QueueTypeOK
  <2>4. call'[c] = "running"
    BY <2>1 DEF QueueInv, QueueTypeOK
  <2>5. QueueTypeOK'
    BY <2>1 DEF QueueInv, QueueTypeOK
  <2>6. Attended'
    BY <2>1, <2>3, <2>4 DEF QueueInv, Attended, Working
  <2>2. InMemory(c)
    BY <2>1 DEF QueueInv, Apart
  <2>7. LockHeld => LockHeld'
    BY <2>1, <2>2, <2>3, <2>4 DEF QueueInv, LockHeld, InMemory
  <2>8. ChainKept' /\ Apart'
    BY <2>1, <2>3, <2>4 DEF QueueInv, QueueTypeOK, ChainKept, Apart, InMemory, InChain
  <2> QED BY <2>1, <2>5, <2>6, <2>7, <2>8 DEF QueueInv
<1>7. ASSUME NEW c \in Calls, Transact(c) PROVE QueueInv'
  BY <1>7 DEF Transact, QueueInv, QueueTypeOK, Attended, Working, LockHeld, ChainKept, Apart,
              InMemory, InChain
<1>8. ASSUME NEW c \in Calls, TaskEnds(c) PROVE QueueInv'
  <2>1. /\ task' = [task EXCEPT ![c] = "ended"]
        /\ UNCHANGED <<noRedis, cancelled, holder, overstayed>>
    BY <1>8 DEF TaskEnds
  <2>2. /\ task' \in [Calls -> {"none", "preparing", "transacting", "ended"}]
        /\ task'[c] = "ended" /\ \A d \in Calls : d # c => task'[d] = task[d]
    BY <2>1 DEF QueueInv, QueueTypeOK
  <2>3. CASE call[c] = "running"
    <3>1. PICK a : Returned(c, a)
      BY <1>8, <2>3 DEF TaskEnds
    <3> QED BY <2>1, <2>2, <2>3, <3>1, RunReturns DEF QueueInv, QueueTypeOK
  <2>4. CASE call[c] # "running"
    <3>1. UNCHANGED <<call, chain>>
      BY <1>8, <2>4 DEF TaskEnds
    <3> QED
      BY <2>1, <2>2, <3>1 DEF QueueInv, QueueTypeOK, Attended, Working, LockHeld, ChainKept,
                              Apart, InMemory, InChain
  <2> QED BY <2>3, <2>4
<1>9. ASSUME NEW c \in Calls, TimeOut(c) PROVE QueueInv'
  <2>1. /\ call[c] = "running" /\ Returned(c, "TIMEOUT")
        /\ cancelled' = [cancelled EXCEPT ![c] = TRUE]
        /\ UNCHANGED <<noRedis, task, holder, overstayed>>
    BY <1>9 DEF TimeOut
  <2>2. /\ cancelled' \in [Calls -> BOOLEAN] /\ cancelled'[c]
        /\ \A d \in Calls : d # c => cancelled'[d] = cancelled[d]
    BY <2>1 DEF QueueInv, QueueTypeOK
  <2> QED BY <2>1, <2>2, RunReturns DEF QueueInv, QueueTypeOK
<1>10. CASE DepthExpires
  BY <1>10 DEF DepthExpires, QueueInv, QueueTypeOK, Attended, Working, LockHeld, ChainKept, Apart,
               InMemory, InChain
<1>11. CASE LockExpires
  <2>1. /\ holder # Free /\ holder' = Free
        /\ \/ call[holder] \notin {"running", "unlocking"} /\ overstayed' = overstayed
           \/ overstayed' = TRUE
        /\ UNCHANGED <<noRedis, call, task, cancelled, chain>>
    BY <1>11 DEF LockExpires
  <2>2. QueueTypeOK' /\ Attended' /\ ChainKept' /\ Apart'
    BY <2>1 DEF QueueInv, QueueTypeOK, Attended, Working, ChainKept, Apart, InMemory, InChain
  <2>3. CASE overstayed'
    BY <2>2, <2>3 DEF QueueInv
  <2>4. CASE ~overstayed'
    BY <2>1, <2>2, <2>4 DEF QueueInv, LockHeld, InMemory
  <2> QED BY <2>3, <2>4
<1>12. ASSUME NEW w \in Hosts, CrashHost(w) PROVE QueueInv'
  <2>1. /\ \A c \in Calls : \/ call'[c] = call[c] /\ task'[c] = task[c] /\ HostOf[c] # w
                            \/ /\ HostOf[c] = w
                               /\ call'[c] \in {"new", "done"}
                               /\ task'[c] \in {"none", "ended"}
        /\ chain' = [chain EXCEPT ![w] = <<>>]
        /\ UNCHANGED <<noRedis, cancelled, holder, overstayed>>
    BY <1>12 DEF CrashHost, Local, QueueInv, QueueTypeOK
  <2>2. chain' \in [Hosts -> Seq(Calls)]
    BY <2>1, EmptySeq DEF QueueInv, QueueTypeOK
  <2>3. QueueTypeOK'
    <3>1. call' = [c \in Calls |-> call'[c]] /\ task' = [c \in Calls |-> task'[c]]
      BY <1>12 DEF CrashHost
    <3>2. \A c \in Calls :
            /\ call'[c] \in {"new", "counted", "full", "waiting", "running", "unlocking",
                             "leaving", "queued", "done"}
            /\ task'[c] \in {"none", "preparing", "transacting", "ended"}
      BY <2>1 DEF QueueInv, QueueTypeOK
    <3> QED BY <2>1, <2>2, <3>1, <3>2 DEF QueueInv, QueueTypeOK
  <2>4. Attended'
    BY <2>1 DEF QueueInv, Attended, Working
  <2>5. LockHeld => LockHeld'
    BY <2>1 DEF LockHeld, InMemory
  <2>6. \A c \in Calls : HostOf[c] # w => chain'[HostOf[c]] = chain[HostOf[c]]
    BY <2>1 DEF QueueInv, QueueTypeOK
  <2>7. ChainKept' /\ Apart'
    BY <2>1, <2>6 DEF QueueInv, ChainKept, Apart, InMemory, InChain
  <2> QED BY <2>1, <2>3, <2>4, <2>5, <2>7 DEF QueueInv
<1>13. CASE UNCHANGED queueVars
  BY <1>13 DEF queueVars, QueueInv, QueueTypeOK, Attended, Working, LockHeld, ChainKept, Apart,
               InMemory, InChain
<1> QED
  BY <1>1, <1>2, <1>3, <1>4, <1>5, <1>6, <1>7, <1>8, <1>9, <1>10, <1>11, <1>12, <1>13
  DEF QueueNext

\* Two orders of a user are executed at once only if one of them was told to stop
\* or a stalled worker lost its lock, however many orders and workers there are.
THEOREM ExecutionsAreSerial == QueueSpec => []SerialUnlessTimedOut
<1>1. QueueInv => SerialUnlessTimedOut
  BY DEF QueueInv, Attended, LockHeld, ChainKept, SerialUnlessTimedOut, SameQueue
<1> QED BY <1>1, QueueInitInv, QueueNextInv, PTL DEF QueueSpec
=============================================================================
