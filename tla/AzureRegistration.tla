------------------------- MODULE AzureRegistration -------------------------
(***************************************************************************)
(* Registration with Azure load balancers and application gateways:        *)
(* register/azurelb.py, on top of register/azuretools.py.                  *)
(*                                                                         *)
(* Azure keeps the backend pools a machine is in with the IP configuration *)
(* of its network interface, and that is read and written as a whole.  The *)
(* aurproxy tasks of several jobs may share a machine, and so does whoever *)
(* else puts it into pools.  Every call of Azure is one action: what is    *)
(* written was read some time before.                                      *)
(***************************************************************************)
EXTENDS Naturals, Sequences

CONSTANTS
  Jobs,         \* the jobs with a task on the machine
  Balancers,    \* names of load balancers and application gateways
  Pools,        \* backend pools
  PoolsOf,      \* the pools of each balancer
  FirstPool,    \* the pool of each balancer that add chooses
  Configured,   \* lb_names: the balancers each job is configured with
  Lbs,          \* the property lbs: those of them that exist, as Azure lists them
  PerformCheck  \* jobs that register with gateways, with a refresh_interval

ASSUME AzureAssumption ==
  /\ PoolsOf \in [Balancers -> SUBSET Pools]
  /\ FirstPool \in [Balancers -> Pools]
  /\ \A b \in Balancers : FirstPool[b] \in PoolsOf[b]
  /\ \A b, c \in Balancers : b # c => PoolsOf[b] \cap PoolsOf[c] = {}
  /\ Configured \in [Jobs -> Seq(Balancers)]
  /\ Lbs \in [Jobs -> Seq(Balancers)]
  /\ \A j \in Jobs : \A i \in DOMAIN Lbs[j] :
       /\ \E k \in DOMAIN Configured[j] : Lbs[j][i] = Configured[j][k]
       /\ \A k \in DOMAIN Lbs[j] : i # k => Lbs[j][i] # Lbs[j][k]
  /\ PerformCheck \subseteq Jobs

VARIABLES
  nic,       \* the pools in the machine's network interface
  job,       \* how far the task of each job is
  check,     \* the AzureGatewaySelfRegisterer's record of its checks
  disturbed  \* jobs whose registration was changed by others, or whose task failed

azureVars == <<nic, job, check, disturbed>>

\* The pools through which j may be registered.
OwnPools(j) == UNION {PoolsOf[Lbs[j][i]] : i \in DOMAIN Lbs[j]}

\* next: the balancer whose turn it is; act: its match calls for a change;
\* holding: the interface was read to be changed, with the pools in copy.
Job == [pc : {"down", "adding", "running", "removing", "removed"}, next : Nat \ {0},
        act : BOOLEAN, holding : BOOLEAN, copy : SUBSET Pools]
NotRunning == [pc |-> "down", next |-> 1, act |-> FALSE, holding |-> FALSE, copy |-> {}]

\* states, last: _check_states and _last_result; due: refresh_interval has passed
\* since _last_checked; at: the balancer the check has come to, 0 between checks.
Check == [states : Seq(BOOLEAN), last : BOOLEAN, due : BOOLEAN, at : Nat]
Fresh(j) == [states |-> [i \in DOMAIN Configured[j] |-> TRUE], last |-> TRUE, due |-> TRUE, at |-> 0]

AzureTypeOK ==
  /\ nic \in SUBSET Pools
  /\ job \in [Jobs -> Job]
  /\ check \in [Jobs -> Check]
  /\ disturbed \in SUBSET Jobs

AzureInit ==
  /\ nic = {}
  /\ job = [j \in Jobs |-> NotRunning]
  /\ check = [j \in Jobs |-> Fresh(j)]
  /\ disturbed = {}

-----------------------------------------------------------------------------
\* Somebody else puts the machine into a pool or takes it out.
Others(p) ==
  /\ nic' = IF p \in nic THEN nic \ {p} ELSE nic \cup {p}
  /\ disturbed' = disturbed \cup {j \in Jobs : p \in OwnPools(j)}
  /\ UNCHANGED <<job, check>>

\* run constructs the registerer and calls add.
StartAdd(j) ==
  /\ job[j].pc = "down"
  /\ job' = [job EXCEPT ![j] = [NotRunning EXCEPT !.pc = "adding"]]
  /\ check' = [check EXCEPT ![j] = Fresh(j)]
  /\ disturbed' = IF nic \cap OwnPools(j) = {} THEN disturbed \ {j} ELSE disturbed
  /\ UNCHANGED nic

InLoop(j) == job[j].pc \in {"adding", "removing"} /\ job[j].next <= Len(Lbs[j])
Current(j) == Lbs[j][job[j].next]

Advanced(j) ==
  job' = [job EXCEPT ![j] = [NotRunning EXCEPT !.pc = job[j].pc, !.next = job[j].next + 1]]

\* Whether the interface, as it is now, has a pool of b.
Matched(b) == nic \cap PoolsOf[b] # {}

\* match_load_balancer_and_vm: add goes on if there is no match, and remove if
\* there is one.
Match(j) ==
  /\ InLoop(j) /\ ~job[j].act
  /\ IF Matched(Current(j)) = (job[j].pc = "adding") THEN Advanced(j)
     ELSE job' = [job EXCEPT ![j].act = TRUE]
  /\ UNCHANGED <<nic, check, disturbed>>

\* The interface is read again, to be changed; remove looks for the match in
\* that one, and leaves it if it is gone.
Read(j) ==
  /\ InLoop(j) /\ job[j].act /\ ~job[j].holding
  /\ IF job[j].pc = "removing" /\ ~Matched(Current(j)) THEN Advanced(j)
     ELSE job' = [job EXCEPT ![j].holding = TRUE, ![j].copy = nic]
  /\ UNCHANGED <<nic, check, disturbed>>

\* Mutant: none of the pools is dropped.
DropNone(j) == {job[j].copy}

\* upsert_pool: what add makes of the pools it has read.
Upsert(j) == {job[j].copy \cup {FirstPool[Current(j)]}}

\* drop_pool: what remove makes of them; the pool is the first that matches.
Drop(j) == {job[j].copy \ {p} : p \in job[j].copy \cap PoolsOf[Current(j)]}

\* save_network_interface: the whole interface is written, and with it what it
\* was for everybody else when it was read.  add notes the success.
Save(j) ==
  /\ InLoop(j) /\ job[j].holding
  /\ \E written \in (IF job[j].pc = "adding" THEN Upsert(j) ELSE Drop(j)) :
       /\ nic' = written
       /\ disturbed' = disturbed \cup
            {k \in Jobs \ {j} : OwnPools(k) \cap nic # OwnPools(k) \cap written}
  /\ check' = IF job[j].pc = "adding" THEN [check EXCEPT ![j].states[job[j].next] = TRUE] ELSE check
  /\ Advanced(j)

AddDone(j) ==
  /\ job[j].pc = "adding" /\ job[j].next > Len(Lbs[j])
  /\ job' = [job EXCEPT ![j] = [NotRunning EXCEPT !.pc = "running"]]
  /\ UNCHANGED <<nic, check, disturbed>>

\* The task is told to quit: remove, its shutdown handler, is called.
Quit(j) ==
  /\ job[j].pc = "running"
  /\ job' = [job EXCEPT ![j] = [NotRunning EXCEPT !.pc = "removing"]]
  /\ UNCHANGED <<nic, check, disturbed>>

RemoveDone(j) ==
  /\ job[j].pc = "removing" /\ job[j].next > Len(Lbs[j])
  /\ job' = [job EXCEPT ![j] = [NotRunning EXCEPT !.pc = "removed"]]
  /\ UNCHANGED <<nic, check, disturbed>>

TaskKilled(j) ==
  /\ job[j].pc = "removed" /\ check[j].at = 0
  /\ job' = [job EXCEPT ![j] = NotRunning]
  /\ UNCHANGED <<nic, check, disturbed>>

\* A call raises, there is no such machine, or the task dies: what was done stays.
Fails(j) ==
  /\ job[j].pc \in {"adding", "running", "removing"}
  /\ job' = [job EXCEPT ![j] = NotRunning]
  /\ check' = [check EXCEPT ![j].at = 0]
  /\ disturbed' = disturbed \cup {j}
  /\ UNCHANGED nic

-----------------------------------------------------------------------------
(* AzureGatewaySelfRegisterer.check, called for /health.                   *)

Serving(j) == job[j].pc \in {"running", "removing", "removed"}

Elapse(j) ==
  /\ j \in PerformCheck /\ Serving(j) /\ ~check[j].due
  /\ check' = [check EXCEPT ![j].due = TRUE]
  /\ UNCHANGED <<nic, job, disturbed>>

\* Nothing is looked up while the last result was good and is recent.
MustCheck(j) == check[j].due \/ ~check[j].last

BeginCheck(j) ==
  /\ j \in PerformCheck /\ Serving(j) /\ check[j].at = 0 /\ MustCheck(j)
  /\ check' = [check EXCEPT ![j].at = 1, ![j].due = FALSE]
  /\ UNCHANGED <<nic, job, disturbed>>

\* One balancer is looked up.
CheckOne(j) ==
  /\ check[j].at # 0 /\ check[j].at <= Len(Lbs[j])
  /\ check' = [check EXCEPT ![j].states[check[j].at] = Matched(Lbs[j][check[j].at]),
                            ![j].at = @ + 1]
  /\ UNCHANGED <<nic, job, disturbed>>

\* Mutant: the result is not computed anew.
ResultKept(j) == check[j].last

\* One state that is good makes the result good.
Result(j) == \E i \in DOMAIN check[j].states : check[j].states[i]

EndCheck(j) ==
  /\ check[j].at > Len(Lbs[j])
  /\ check' = [check EXCEPT ![j].last = Result(j), ![j].at = 0]
  /\ UNCHANGED <<nic, job, disturbed>>

\* Aurora shuts down a task whose health check fails.
Unhealthy(j) == ~check[j].last /\ Quit(j)

-----------------------------------------------------------------------------
JobStep(j) == Match(j) \/ Read(j) \/ Save(j) \/ AddDone(j) \/ RemoveDone(j) \/ TaskKilled(j)

CheckStep(j) == Elapse(j) \/ BeginCheck(j) \/ CheckOne(j) \/ EndCheck(j)

AzureNext ==
  \/ \E p \in Pools : Others(p)
  \/ \E j \in Jobs : StartAdd(j) \/ JobStep(j) \/ CheckStep(j) \/ Quit(j) \/ Fails(j)

AzureSpec == AzureInit /\ [][AzureNext]_azureVars

\* Azure answers, Aurora asks for the health again and again, and shuts down and
\* kills what it finds unhealthy.
AzureFairSpec ==
  /\ AzureSpec
  /\ \A j \in Jobs :
       WF_azureVars(JobStep(j)) /\ WF_azureVars(CheckStep(j)) /\ WF_azureVars(Unhealthy(j))

-----------------------------------------------------------------------------
\* A running task is in a pool of each balancer it was configured with that exists,
\* and one that has shut down is in none - unless its own calls failed, or somebody
\* changed its pools, as a task of another job does when it writes an interface it
\* had read before.
RegisteredUnlessDisturbed ==
  \A j \in Jobs \ disturbed :
    /\ job[j].pc = "running" => \A i \in DOMAIN Lbs[j] : Matched(Lbs[j][i])
    /\ job[j].pc \in {"removed", "down"} => nic \cap OwnPools(j) = {}

\* check returns whether the effect of add is still true: a task that performs
\* checks and is in no pool of its balancers does not go on running like that, but
\* is shut down, or put into a pool again.  All its balancers must exist for that:
\* the recorded state of one that does not is TRUE for ever.
LostIsNoticed ==
  \A j \in PerformCheck :
    (job[j].pc = "running" /\ nic \cap OwnPools(j) = {})
      ~> (job[j].pc # "running" \/ nic \cap OwnPools(j) # {})
=============================================================================
