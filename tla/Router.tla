------------------------------- MODULE Router -------------------------------
(***************************************************************************)
(* The router in front of several servers, cluster/router.py, with its     *)
(* early rejector, SLO enforcer and sticky bindings: one event loop, whose *)
(* steps are the code between two awaits.  The workers behind it come and  *)
(* go; a request that has been forwarded ends when its worker answers or   *)
(* fails.                                                                  *)
(***************************************************************************)
EXTENDS WorkerSlo, Lists, SequencesExt

CONSTANTS Users, Workers,       \* Workers: a sequence, the --workers of the command line
          Reports,              \* the metrics a worker may report
          ReportId,             \* a worker that reports -> the worker_id in its reports
          Unreliable,           \* the workers that may be down (environment)
          Whitelist, Blacklist, \* PredictiveEarlyRejector
          MaxGlobalQps, MaxUserQps, TokenQuota,
          LoadThreshold,        \* high_load_score_threshold, in parts of One
          Cooldown,             \* ban_cooldown_sec
          Tokens,               \* the max_tokens a request may carry
          MaxTime, MaxCalls     \* bounds: seconds, and calls of a run

Worker == {Workers[i] : i \in DOMAIN Workers}

RouterAssumption ==
  /\ Workers \in Seq(Worker) /\ IsInjective(Workers) /\ Workers # << >>
  /\ Reports \subseteq Metrics
  /\ {MaxGlobalQps, MaxUserQps, TokenQuota, Cooldown, MaxTime, MaxCalls} \subseteq Nat
  /\ Tokens \subseteq Nat

VARIABLES now,                  \* int(time.time())
          up,                   \* the workers that answer (environment)
          healthy, cyc,         \* RouterState.healthy_workers and the rest of _cycle
          metrics,              \* worker_realtime_metrics
          ban_until,            \* SLOEnforcer.ban_until, a partial function
          sticky,               \* RouteStrategyManager.user_sticky_map, partial
          global_qps, user_qps, \* the trackers: second -> count
          token_used,           \* user -> tokens
          stats,                \* worker -> requests and errors
          calls,                \* the calls forwarded and not yet over
          checking,             \* where health_check_loop is
          reported,             \* history: what each worker reported last
          log                   \* history: per call, when, for whom, what became of it

limits == << global_qps, user_qps, token_used >>
routing == << healthy, cyc, metrics, reported, ban_until, sticky >>
vars == << now, up, routing, limits, stats, calls, checking, log >>

\* The metrics every worker starts with
Initial == [ttft |-> 500, tpot |-> 40, prefill |-> 0, decode |-> 0, wait |-> 0, kv |-> 32,
            gpu |-> 180]

Seconds == 0..MaxTime
Never == [t \in Seconds |-> 0]

Init ==
  /\ now = 0 /\ up \in {Worker \ down : down \in SUBSET Unreliable}
  /\ healthy = Workers /\ cyc = Workers
  /\ metrics = [w \in Worker |-> Initial] /\ reported = metrics
  /\ ban_until = << >> /\ sticky = << >>
  /\ global_qps = Never /\ user_qps = [u \in Users |-> Never]
  /\ token_used = [u \in Users |-> 0]
  /\ stats = [w \in Worker |-> [requests |-> 0, errors |-> 0]]
  /\ calls = {} /\ checking = 1 /\ log = << >>

-----------------------------------------------------------------------------
InCooldown(w) == w \in DOMAIN ban_until /\ now < ban_until[w]

State(w) == IF InCooldown(w) THEN "banned" ELSE SloState(metrics[w])

\* ban_until after check_worker of every worker in S
Judge(S) ==
  LET banned == {w \in S : State(w) = "banned"}
      kept == (DOMAIN ban_until \ S) \cup banned
  IN  [w \in kept |-> IF w \in DOMAIN ban_until /\ (w \notin S \/ InCooldown(w))
                      THEN ban_until[w] ELSE now + Cooldown]

Healthy == {healthy[i] : i \in DOMAIN healthy}

ValidUnbanned ==                \* mutant: ban_until is not looked at
  Within(healthy, {w \in Healthy : SloState(metrics[w]) \in {"normal", "warning"}})

\* get_healthy_workers, in the order of the list
Valid == Within(healthy, {w \in Healthy : State(w) \in {"normal", "warning"}})

\* pick_best_worker: the lowest score, the first among equals
Best(list) ==
  LET lowest(i) == \A j \in DOMAIN list : Score(metrics[list[i]]) <= Score(metrics[list[j]])
  IN  list[CHOOSE i \in DOMAIN list : lowest(i) /\ \A j \in 1..(i - 1) : ~lowest(j)]

BestAlways(u, list, bound) == Best(list)                \* mutant: bindings are not used

\* select_worker under USER_STICKY
Choice(u, list, bound) ==
  IF u \in DOMAIN bound /\ \E i \in DOMAIN list : list[i] = bound[u]
  THEN bound[u] ELSE Best(list)

\* What should_reject answers, before it counts anything
Refusal(u, n, w) ==
  CASE u \in Whitelist -> "passed"
    [] u \in Blacklist \ Whitelist -> "blacklisted"
    [] OTHER -> IF Score(metrics[w]) >= LoadThreshold THEN "loaded"
                ELSE IF n > 0 /\ token_used[u] + n > TokenQuota THEN "quota"
                ELSE IF global_qps[now] >= MaxGlobalQps THEN "global"
                ELSE IF user_qps[u][now] >= MaxUserQps THEN "user" ELSE "passed"

\* What it counts: the global tracker before the user's limit is looked at
Count(u, n, refusal) ==
  LET Add(passing) == IF u \notin Whitelist /\ refusal \in passing THEN 1 ELSE 0
  IN  /\ global_qps' = [global_qps EXCEPT ![now] = @ + Add({"passed", "user"})]
      /\ user_qps' = [user_qps EXCEPT ![u][now] = @ + Add({"passed"})]
      /\ token_used' = [token_used EXCEPT ![u] = @ + n * Add({"passed"})]

-----------------------------------------------------------------------------
Entry(u, n, w, api, isNew, outcome) ==
  [user |-> u, tokens |-> n, worker |-> w, api |-> api, fresh |-> isNew, at |-> now, outcome |-> outcome,
   state |-> IF w \in Worker THEN State(w) ELSE "none", choices |-> Len(healthy)]

Place(u, n, w, api, isNew) ==
  /\ log' = Append(log, Entry(u, n, w, api, isNew, "open"))
  /\ calls' = calls \cup {Len(log) + 1}

Turned(u, n, isNew, reason) ==
  /\ log' = Append(log, Entry(u, n, "none", "chat", isNew, reason))
  /\ UNCHANGED calls

Bound(u, isNew) == IF isNew THEN RestrictDomain(sticky, LAMBDA v : v # u) ELSE sticky

\* openai_chat_completions with one healthy worker: nothing else is looked at
ChatSingle(u, n, isNew) ==
  /\ Len(log) < MaxCalls /\ Len(healthy) = 1
  /\ Place(u, n, healthy[1], "chat", isNew)
  /\ sticky' = Bound(u, isNew)
  /\ UNCHANGED << now, up, healthy, cyc, metrics, reported, ban_until, limits, stats, checking >>

\* ... with none, or with none that is valid
ChatNobody(u, n, isNew) ==
  /\ Len(log) < MaxCalls
  /\ \/ healthy = << >> /\ sticky' \in {sticky, Bound(u, isNew)}
     \/ Len(healthy) > 1 /\ Valid = << >> /\ sticky' = Bound(u, isNew)
  /\ ban_until' = IF healthy = << >> THEN ban_until ELSE Judge(Healthy)
  /\ Turned(u, n, isNew, "unavailable")
  /\ UNCHANGED << now, up, healthy, cyc, metrics, reported, limits, stats, checking >>

\* ... with several: SLO filter, sticky choice, limits, binding
Chat(u, n, isNew) ==
  /\ Len(log) < MaxCalls /\ Len(healthy) > 1 /\ Valid # << >>
  /\ LET w == Choice(u, Valid, Bound(u, isNew))
         refusal == Refusal(u, n, w)
     IN  /\ Count(u, n, refusal)
         /\ ban_until' = Judge(Healthy)
         /\ \/ /\ refusal = "passed"
               /\ Place(u, n, w, "chat", isNew)
               /\ sticky' = [v \in DOMAIN sticky \cup {u} |-> IF v = u THEN w ELSE sticky[v]]
            \/ /\ refusal # "passed"
               /\ Turned(u, n, isNew, refusal)
               /\ sticky' = Bound(u, isNew)
  /\ UNCHANGED << now, up, healthy, cyc, metrics, reported, stats, checking >>

\* /generate: the next worker of the cycle, no limits
Generate(u) ==
  /\ Len(log) < MaxCalls /\ healthy # << >>
  /\ Place(u, 0, Head(cyc), "generate", FALSE)
  /\ cyc' = Append(Tail(cyc), Head(cyc))
  /\ UNCHANGED << now, up, healthy, metrics, reported, ban_until, sticky, limits, stats, checking >>

-----------------------------------------------------------------------------

MarkUnhealthy(w) ==
  /\ healthy' = Within(healthy, Healthy \ {w})
  /\ cyc' = IF w \in Healthy THEN healthy' ELSE cyc

MarkHealthy(w) ==
  /\ healthy' = IF w \in Healthy THEN healthy ELSE Append(healthy, w)
  /\ cyc' = IF w \in Healthy THEN cyc ELSE healthy'

Close(i, outcome) ==
  /\ log' = [log EXCEPT ![i].outcome = outcome]
  /\ calls' = calls \ {i}

\* record and record_stream_metrics
Answered(i) ==
  /\ log[i].worker \in up
  /\ Close(i, "answered")
  /\ stats' = [stats EXCEPT ![log[i].worker].requests = @ + 1]
  /\ UNCHANGED << now, up, routing, limits, checking >>

\* The worker answers /generate with another status than 200
BadStatus(i) ==
  /\ log[i].worker \in up /\ log[i].api = "generate"
  /\ Close(i, "failed")
  /\ stats' = [stats EXCEPT ![log[i].worker].errors = @ + 1]
  /\ UNCHANGED << now, up, routing, limits, checking >>

\* aiohttp.ClientError in /generate: the worker is down, or what it answers, an event
\* stream, is not the JSON resp.json() wants
Fail(i) ==
  /\ log[i].api = "generate"
  /\ Close(i, "failed")
  /\ stats' = [stats EXCEPT ![log[i].worker].errors = @ + 1]
  /\ MarkUnhealthy(log[i].worker)
  /\ UNCHANGED << now, up, metrics, reported, ban_until, sticky, limits, checking >>

\* The same in stream_forward, which runs after the try block was left; and the
\* timeout of either, which is no ClientError, or the client gone
FailUnhandled(i) ==
  /\ \/ log[i].worker \notin up /\ log[i].api = "chat" /\ Close(i, "failed")
     \/ Close(i, "timeout")
  /\ UNCHANGED << now, up, routing, limits, stats, checking >>

-----------------------------------------------------------------------------

HealthCheckNoMark ==            \* mutant: a failed GET changes nothing
  /\ checking <= Len(Workers)
  /\ LET w == Workers[checking]
     IN  IF w \in up THEN MarkHealthy(w) ELSE UNCHANGED << healthy, cyc >>
  /\ checking' = checking + 1
  /\ UNCHANGED << now, up, metrics, reported, ban_until, sticky, limits, stats, calls, log >>

\* One GET of health_check_loop has been answered, or not
HealthCheck ==
  /\ checking <= Len(Workers)
  /\ LET w == Workers[checking]
     IN  IF w \in up THEN MarkHealthy(w) ELSE MarkUnhealthy(w)
  /\ checking' = checking + 1
  /\ UNCHANGED << now, up, metrics, reported, ban_until, sticky, limits, stats, calls, log >>

RecentOnly(count) ==            \* mutant: this second's counts go as well
  [t \in Seconds |-> IF t + 2 >= now /\ t # now THEN count[t] ELSE 0]

Recent(count) == [t \in Seconds |-> IF t + 2 >= now THEN count[t] ELSE 0]

\* After the sleep: clean_expired_qps
Clean ==
  /\ checking > Len(Workers)
  /\ checking' = 1
  /\ global_qps' = Recent(global_qps)
  /\ user_qps' = [u \in Users |-> Recent(user_qps[u])]
  /\ UNCHANGED << now, up, routing, token_used, stats, calls, log >>

\* RouterGrpcService.ReportMetrics
Report(w) ==
  /\ w \in DOMAIN ReportId
  /\ \E m \in Reports :
       /\ metrics' = IF ReportId[w] \in Worker THEN [metrics EXCEPT ![ReportId[w]] = m]
                     ELSE metrics
       /\ reported' = [reported EXCEPT ![w] = m]
  /\ UNCHANGED << now, up, healthy, cyc, ban_until, sticky, limits, stats, calls,
                  checking, log >>

Tick ==
  /\ now < MaxTime
  /\ now' = now + 1
  /\ UNCHANGED << up, routing, limits, stats, calls, checking, log >>

\* External: a worker dies or comes back
Crash(w) ==
  /\ w \in up \cap Unreliable /\ up' = up \ {w}
  /\ UNCHANGED << now, routing, limits, stats, calls, checking, log >>

Restart(w) ==
  /\ w \notin up /\ up' = up \cup {w}
  /\ UNCHANGED << now, routing, limits, stats, calls, checking, log >>

Request(u) ==
  \/ \E n \in Tokens : \E isNew \in BOOLEAN :
       ChatSingle(u, n, isNew) \/ ChatNobody(u, n, isNew) \/ Chat(u, n, isNew)
  \/ Generate(u)

CallStep(i) == Answered(i) \/ BadStatus(i) \/ Fail(i) \/ FailUnhandled(i)

Loop == HealthCheck \/ Clean

Environment == Tick \/ \E w \in Worker : Report(w) \/ Crash(w) \/ Restart(w)

Next ==
  \/ \E u \in Users : Request(u)
  \/ \E i \in calls : CallStep(i)
  \/ Loop
  \/ Environment

Spec == Init /\ [][Next]_vars

\* The health loop never ends: a GET is answered, refused or times out.
FairSpec == Spec /\ WF_vars(Loop)

-----------------------------------------------------------------------------
\* The worker /generate takes next is healthy: the cycle is a rotation of the
\* healthy list, whatever calls and checks have marked in between.
CycleIsHealthy ==
  /\ Len(cyc) = Len(healthy)
  /\ {cyc[i] : i \in DOMAIN cyc} = Healthy

Served == {i \in DOMAIN log : log[i].outcome \in {"open", "answered", "failed", "timeout"}}

\* The calls that went through the rejector
Limited(i) ==
  i \in Served /\ log[i].api = "chat" /\ log[i].choices > 1 /\ log[i].user \notin Whitelist

\* No user and no second exceeds its limit: clean_expired_qps, which runs at
\* any time, never forgets a count that is still needed.
QpsWithinLimits ==
  \A t \in Seconds :
    /\ Cardinality({i \in DOMAIN log : Limited(i) /\ log[i].at = t}) <= MaxGlobalQps
    /\ \A u \in Users :
         Cardinality({i \in DOMAIN log : Limited(i) /\ log[i].at = t /\ log[i].user = u})
           <= MaxUserQps

\* A user's requests never add up to more than the quota, and the counter is
\* exactly what was granted.
QuotaKept ==
  \A u \in Users :
    LET mine == {i \in DOMAIN log : Limited(i) /\ log[i].user = u}
    IN  /\ token_used[u] = MapThenSumSet(LAMBDA i : log[i].tokens, mine)
        /\ token_used[u] <= TokenQuota

LimitsKept == QpsWithinLimits /\ QuotaKept

\* A worker that is banned or restricted when a call is placed gets it only if
\* no other is healthy, though its metrics may be good again.
BannedAvoided ==
  \A i \in Served :
    log[i].api = "chat" /\ log[i].choices > 1 => log[i].state \in {"normal", "warning"}

\* Whomever a call goes to, or /generate would go to next, was fit for it.
ChosenAreFit == CycleIsHealthy /\ BannedAvoided

\* A user stays with its worker as long as that one is valid and the user does
\* not begin a new session: only a Chat step that says so binds it elsewhere.
KeepsSticky ==
  \A u \in DOMAIN sticky :
    u \in DOMAIN sticky' /\ sticky'[u] # sticky[u] =>
      ~(\E i \in DOMAIN Valid : Valid[i] = sticky[u]) \/ log'[Len(log')].fresh

StickyKept == [][KeepsSticky]_vars

\* A worker that stays dead leaves the healthy list for good, and one that stays up
\* is taken back however often a call marks it.
DeadLeaves == \A w \in Worker : <>[](w \notin up) => <>[](w \notin Healthy)
AliveReturns == \A w \in Worker : <>[](w \in up) => []<>(w \in Healthy)

-----------------------------------------------------------------------------
\* router.py:463: every call passes the rejector, so none is over the limits.
LimitsOnEveryPath ==
  \A t \in Seconds : \A u \in Users \ Whitelist :
    Cardinality({i \in Served : log[i].api = "chat" /\ log[i].at = t /\ log[i].user = u})
      <= MaxUserQps

\* slo_enforcer.py:14: a restricted worker still serves the users bound to it.
RestrictedServesItsUsers ==
  [][\A u \in DOMAIN sticky :
       u \in DOMAIN sticky' /\ sticky'[u] # sticky[u] =>
         State(sticky[u]) # "restricted" \/ sticky[u] \notin Healthy
           \/ log'[Len(log')].fresh]_vars

\* router_grpc.py:36: what a worker reports is what the router judges it by.
ReportsStored == metrics = reported

\* router.py:68: all errors of a worker are counted.
ErrorsCounted ==
  \A w \in Worker :
    stats[w].errors = Cardinality({i \in DOMAIN log : log[i].worker = w
                                                        /\ log[i].outcome = "failed"})

\* router.py:380: cleaning also removes the tokens of users that are gone.
CleanForgets ==
  [][Clean /\ (\A i \in DOMAIN log : log[i].at + 2 < now) =>
       \A u \in Users : token_used'[u] = 0]_vars
=============================================================================
