----------------------- MODULE InfrastructureFreshness -----------------------
(***************************************************************************)
(* The footer's infrastructure freshness and its redeploy buttons: the     *)
(* indicator with its module-level cache and query                         *)
(* (components/InfrastructureFreshnessIndicator.tsx), the Worker's cache   *)
(* and collection (lib/infrastructure-freshness*.ts), the redeploy handler *)
(* (lib/infrastructure-redeploy-action.ts) and the webhooks the Runtime    *)
(* calls (adt-runtime/src/redeploy.ts).                                    *)
(*                                                                         *)
(* One tab and one Worker isolate.  A snapshot gives each target's state;  *)
(* the Worker itself is current.  How long an entry lives is left open:    *)
(* it may expire at any moment after it was written.                       *)
(***************************************************************************)
EXTENDS Naturals, Sequences, FiniteSets

CONSTANTS Targets,   \* among "runtime" and "runner"
          Queries,   \* bound: fetches of the tab at the same time; strings
          MaxPolls,  \* 12 in the code
          MaxTroubles  \* bound: failed or uncertain calls, and absences of the user

VARIABLES
  asked, reported,       \* the roles whose webhook was called; the targets at the expected release
  cached, collection,    \* the Worker: its cache, its collection under way
  memoryCache, inFlight, \* the tab: its cache and the query that others join
  fetches,               \* the tab's fetches
  footer, timer, awaits, visible, \* what the footer shows, its refresh timer, the queries its runs await
  actions, poll, post,   \* per target: the button, its polling, its request
  troubles

infraVars == <<asked, reported, cached, collection, memoryCache, inFlight, fetches, footer, timer, awaits,
               visible, actions, poll, post, troubles>>
world == <<asked, reported>>
workerSide == <<cached, collection>>
tab == <<memoryCache, inFlight, fetches>>
page == <<footer, timer, awaits, visible, actions, poll>>

Roles(t) == IF t = "runtime" THEN <<"runtime">> ELSE <<"executor", "repository-manager", "controller">>

Nothing == [status |-> "none"]
Unavailable == [status |-> "unavailable"]
Hidden == [status |-> "hidden"]
Loaded(components) == [status |-> "loaded", components |-> components]
IsLoaded(answer) == answer.status = "loaded"

Off == [on |-> "off"]
NoQuery == "none"

Trouble == troubles < MaxTroubles /\ troubles' = troubles + 1

\* adtRuntimeReleaseFreshness, runnerReleaseFreshness: the release the target reports;
\* the Runner's is its controller's.
Freshness(t) == IF t \in reported THEN "current" ELSE "superseded"

-----------------------------------------------------------------------------
(* The Worker's snapshot                                                   *)

Unseen == [t \in Targets |-> "unseen"]
CompleteView(seen) == \A t \in Targets : seen[t] # "unseen"

\* One observation of a collection: what the target reports, or unknown when it
\* fails or the deadline passes.
Observes(seen, t, seen2) ==
  /\ seen[t] = "unseen"
  /\ \/ seen2 = [seen EXCEPT ![t] = Freshness(t)] /\ UNCHANGED troubles
     \/ seen2 = [seen EXCEPT ![t] = "unknown"] /\ Trouble

\* getInfrastructureFreshnessSnapshot: cached, joined or collected.  A session that
\* has lost its access is refused; a Worker that fails answers what does not parse.
Get(q) ==
  /\ fetches[q].status = "sent"
  /\ \/ /\ fetches' = [fetches EXCEPT ![q] = IF cached # Nothing THEN cached ELSE [status |-> "joined"]]
        /\ collection' = IF cached = Nothing /\ collection = Nothing THEN [status |-> "collecting", seen |-> Unseen] ELSE collection
        /\ UNCHANGED troubles
     \/ \E answer \in {Hidden, Unavailable} : fetches' = [fetches EXCEPT ![q] = answer] /\ Trouble /\ UNCHANGED collection
  /\ UNCHANGED <<world, cached, memoryCache, inFlight, page, post>>

Collect(t) ==
  /\ collection # Nothing
  /\ \E seen \in [Targets -> {"unseen", "current", "superseded", "unknown"}] :
       Observes(collection.seen, t, seen) /\ collection' = [collection EXCEPT !.seen = seen]
  /\ UNCHANGED <<world, cached, tab, page, post>>

Collected ==
  /\ collection # Nothing /\ CompleteView(collection.seen)
  /\ cached' = Loaded(collection.seen) /\ collection' = Nothing
  /\ fetches' = [q \in Queries |-> IF fetches[q].status = "joined" THEN Loaded(collection.seen) ELSE fetches[q]]
  /\ UNCHANGED <<world, memoryCache, inFlight, page, post, troubles>>

ServerCacheExpires ==
  /\ cached # Nothing /\ cached' = Nothing
  /\ UNCHANGED <<world, collection, tab, page, post, troubles>>

-----------------------------------------------------------------------------
(* The tab                                                                 *)

\* What pollRedeploy does with an answer.
AfterPoll(t, answer) ==
  IF \/ IsLoaded(answer) /\ answer.components[t] # "superseded"
     \/ poll[t].attempt >= MaxPolls \/ answer.status = "hidden"
  THEN [poll |-> Off, action |-> "idle"]
  ELSE [poll |-> [on |-> "timer", attempt |-> poll[t].attempt], action |-> actions[t]]

\* The name of a new query: any one that is free.
NewQuery == LET free == {q \in Queries : fetches[q] = Nothing} IN IF free = {} THEN {} ELSE {CHOOSE q \in free : TRUE}

\* queryInfrastructureFreshness for the footer's run: a cached value at once, or the
\* query under way, or a new one.
QueryForFooter ==
  \/ memoryCache # Nothing /\ footer' = memoryCache /\ timer' = TRUE /\ UNCHANGED <<awaits, inFlight, fetches>>
  \/ memoryCache = Nothing /\ inFlight # NoQuery /\ timer' = FALSE /\ awaits' = awaits \cup {inFlight} /\ UNCHANGED <<footer, inFlight, fetches>>
  \/ /\ memoryCache = Nothing /\ inFlight = NoQuery /\ timer' = FALSE
     /\ \E q \in NewQuery :
          /\ fetches' = [fetches EXCEPT ![q] = [status |-> "sent"]] /\ inFlight' = q /\ awaits' = awaits \cup {q}
     /\ UNCHANGED footer

\* The refresh timer: run.  A hidden page does nothing.
Run ==
  /\ timer
  /\ IF visible THEN QueryForFooter ELSE timer' = FALSE /\ UNCHANGED <<footer, awaits, inFlight, fetches>>
  /\ UNCHANGED <<world, workerSide, memoryCache, visible, actions, poll, post, troubles>>

\* refreshExpiredOnReturn
Focus ==
  /\ visible' = TRUE
  /\ timer' = (timer \/ memoryCache = Nothing)
  /\ UNCHANGED <<world, workerSide, tab, footer, awaits, actions, poll, post, troubles>>

Hide ==
  /\ visible /\ visible' = FALSE /\ Trouble
  /\ UNCHANGED <<world, workerSide, tab, footer, timer, awaits, actions, poll, post>>

ClientCacheExpires ==
  /\ memoryCache # Nothing /\ memoryCache' = Nothing
  /\ UNCHANGED <<world, workerSide, inFlight, fetches, page, post, troubles>>

\* pollRedeploy: both forgotten, and a new query.
StartPoll(t, attempt) ==
  \E q \in NewQuery :
    /\ fetches' = [fetches EXCEPT ![q] = [status |-> "sent"]]
    /\ memoryCache' = Nothing /\ inFlight' = q
    /\ poll' = [poll EXCEPT ![t] = [on |-> q, attempt |-> attempt]]

Poll(t) ==
  /\ poll[t].on = "timer" /\ StartPoll(t, poll[t].attempt + 1)
  /\ UNCHANGED <<world, workerSide, footer, timer, awaits, visible, actions, post, troubles>>

\* The end of a query, with the Worker's answer or without one, and what those who
\* awaited it do.
Settles(q, answer, flight) ==
  /\ fetches' = [fetches EXCEPT ![q] = Nothing] /\ inFlight' = flight
  /\ memoryCache' = IF IsLoaded(answer) THEN answer ELSE memoryCache
  /\ awaits' = awaits \ {q} /\ timer' = (timer \/ (q \in awaits /\ answer # Hidden))
  /\ footer' = IF q \in awaits \/ \E t \in Targets : poll[t].on = q THEN answer ELSE footer
  /\ poll' = [t \in Targets |-> IF poll[t].on = q THEN AfterPoll(t, answer).poll ELSE poll[t]]
  /\ actions' = [t \in Targets |-> IF poll[t].on = q THEN AfterPoll(t, answer).action ELSE actions[t]]
  /\ UNCHANGED <<world, workerSide, visible, post>>

\* Mutant: a query that fails is not forgotten.
AnsweredKeepsFailure(q) ==
  \/ fetches[q].status \in {"loaded", "hidden", "unavailable"} /\ Settles(q, fetches[q], NoQuery) /\ UNCHANGED troubles
  \/ fetches[q].status \in {"sent", "joined"} /\ Trouble /\ Settles(q, Unavailable, inFlight)

Answered(q) ==
  \/ fetches[q].status \in {"loaded", "hidden", "unavailable"} /\ Settles(q, fetches[q], NoQuery) /\ UNCHANGED troubles
  \/ fetches[q].status \in {"sent", "joined"} /\ Trouble /\ Settles(q, Unavailable, NoQuery)

-----------------------------------------------------------------------------
(* Redeploy                                                                *)

\* handleInfrastructureRedeploy begins with a snapshot of its own.  needed: whether
\* the target has been superseded at some moment since.
Click(t) ==
  /\ visible /\ IsLoaded(footer) /\ footer.components[t] = "superseded" /\ actions[t] = "idle" /\ post[t] = Nothing
  /\ actions' = [actions EXCEPT ![t] = "submitting"]
  /\ post' = [post EXCEPT ![t] = [status |-> "collecting", seen |-> Unseen, needed |-> t \notin reported, roles |-> 0]]
  /\ UNCHANGED <<world, workerSide, tab, footer, timer, awaits, visible, poll, troubles>>

PostCollect(t, of) ==
  /\ post[t].status = "collecting"
  /\ \E seen \in [Targets -> {"unseen", "current", "superseded", "unknown"}] :
       Observes(post[t].seen, of, seen) /\ post' = [post EXCEPT ![t].seen = seen]
  /\ UNCHANGED <<world, workerSide, tab, page>>

Decides(t, snapshot) ==
  post' = [post EXCEPT ![t].status = IF snapshot[t] = "superseded" THEN "relay" ELSE "rejected"]

\* getFreshInfrastructureFreshnessSnapshot keeps what it collected.
PostDecides(t) ==
  /\ post[t].status = "collecting" /\ CompleteView(post[t].seen)
  /\ Decides(t, post[t].seen) /\ cached' = Loaded(post[t].seen)
  /\ UNCHANGED <<world, collection, tab, page, troubles>>

\* requestRedeploy: one webhook after the other; the first that fails ends it.
AsksIn(t, roles) ==
  LET role == roles[post[t].roles + 1]
      last == post[t].roles + 1 = Len(roles)
      call == asked' = asked \cup {role}
      ends(how) == post' = [post EXCEPT ![t].status = how] IN
  /\ post[t].status = "relay"
  /\ \/ call /\ UNCHANGED troubles /\ post' = [post EXCEPT ![t].roles = @ + 1, ![t].status = IF last THEN "accepted" ELSE "relay"]
     \/ Trouble /\ (call \/ UNCHANGED asked) /\ ends("ambiguous")
     \/ Trouble /\ UNCHANGED asked /\ ends("rejected")
     \/ post[t].roles = 0 /\ Trouble /\ UNCHANGED asked /\ ends("unsupported")
  /\ cached' = IF post'[t].status = "accepted" THEN Nothing ELSE cached
  /\ UNCHANGED <<reported, collection, tab, page>>

\* Mutant: the controller first.
AskControllerFirst(t) == AsksIn(t, IF t = "runtime" THEN Roles(t) ELSE <<"controller", "executor", "repository-manager">>)

Ask(t) == AsksIn(t, Roles(t))

\* The tab's reply to itself: locked and polled, or not.  A lost reply is uncertain.
Replied(t) ==
  \E how \in {"rollout", "uncertain", "unavailable", "idle"} :
    /\ actions' = [actions EXCEPT ![t] = how]
    /\ \/ post[t].status = "accepted" /\ how = "rollout" /\ UNCHANGED troubles
       \/ post[t].status = "ambiguous" /\ how = "uncertain" /\ UNCHANGED troubles
       \/ post[t].status = "rejected" /\ how = "idle" /\ UNCHANGED troubles
       \/ post[t].status = "unsupported" /\ how = "unavailable" /\ UNCHANGED troubles
       \/ post[t].status \in {"accepted", "ambiguous", "rejected", "unsupported"} /\ how = "uncertain" /\ Trouble
    /\ post' = [post EXCEPT ![t] = Nothing]
    /\ IF how \in {"rollout", "uncertain"} THEN StartPoll(t, 1) ELSE UNCHANGED <<tab, poll>>
    /\ UNCHANGED <<world, workerSide, footer, timer, awaits, visible>>

\* The deployment of the role that reports the release is done (external).
RollsOut(t) ==
  /\ Roles(t)[Len(Roles(t))] \in asked /\ t \notin reported
  /\ reported' = reported \cup {t}
  /\ UNCHANGED <<asked, workerSide, tab, page, post, troubles>>

-----------------------------------------------------------------------------

InfraInit ==
  /\ asked = {} /\ reported = {} /\ cached = Nothing /\ collection = Nothing
  /\ memoryCache = Nothing /\ inFlight = NoQuery /\ fetches = [q \in Queries |-> Nothing]
  /\ footer = [status |-> "checking"] /\ timer = TRUE /\ awaits = {} /\ visible = TRUE
  /\ actions = [t \in Targets |-> "idle"] /\ poll = [t \in Targets |-> Off] /\ post = [t \in Targets |-> Nothing]
  /\ troubles = 0

Works ==
  \/ Run \/ ServerCacheExpires \/ ClientCacheExpires \/ Collected
  \/ \E q \in Queries : Get(q) \/ Answered(q)
  \/ \E t \in Targets :
       \/ Collect(t) \/ Poll(t) \/ PostDecides(t) \/ Ask(t) \/ Replied(t) \/ RollsOut(t)
       \/ \E of \in Targets : PostCollect(t, of)
InfraNext == Works \/ Focus \/ Hide \/ \E t \in Targets : Click(t)

InfraSpec == InfraInit /\ [][InfraNext]_infraVars

\* Timers fire, entries expire, calls end, and the user comes back to the page.
FairInfraSpec ==
  /\ InfraSpec
  /\ WF_infraVars(Run) /\ WF_infraVars(Focus) /\ WF_infraVars(Collected)
  /\ WF_infraVars(ClientCacheExpires) /\ WF_infraVars(ServerCacheExpires)
  /\ \A q \in Queries : WF_infraVars(Get(q)) /\ WF_infraVars(Answered(q))
  /\ \A t \in Targets : WF_infraVars(Collect(t)) /\ WF_infraVars(Poll(t))

-----------------------------------------------------------------------------
(* Properties                                                              *)

\* When the Runner reports the expected release, all of its roles have been asked to
\* update, also after requests that failed half-way: the role that reports it is
\* asked last (requestRedeploy).
CurrentMeansAllAsked ==
  \A t \in reported : \A i \in 1..Len(Roles(t)) : Roles(t)[i] \in asked

\* Normal freshness observation determines whether a rollout converged: once a
\* target has reached the expected release, the footer comes to show it current.
FooterConverges ==
  \A t \in Targets : t \in reported ~> (IsLoaded(footer) /\ footer.components[t] = "current")

=============================================================================
