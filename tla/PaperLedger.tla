---------------------------- MODULE PaperLedger ----------------------------
(***************************************************************************)
(* The paper-trading ledger: the rows of cryptozavr.paper_trades, the        *)
(* requests that open, close and wipe trades, the position watches with      *)
(* their terminal callback, and the servers that crash, restart and resume.  *)
(*                                                                         *)
(* A database call is an await.  It takes effect in one step; where the      *)
(* coroutine goes on to touch memory that others touch too, going on is a    *)
(* second step, so that what was read may be stale by then.                  *)
(***************************************************************************)
EXTENDS Integers, FiniteSets

CONSTANTS
    Trades,     \* trade ids; a uuid is opened by one request only
    Requests,   \* paper_close_trade / paper_cancel_trade requests
    Servers,    \* server processes (sessions) that share the database
    Watches,    \* watch ids, each used once
    NoWatch,    \* watch_id is null
    NoTrade,
    UserOps,    \* which of "stop_watch", "reset", "set_bankroll" clients call
    MaxCrashes, \* bound: crashes and shutdowns
    MaxFaults   \* bound: failed database calls, aborted requests, dead feeds

ASSUME LedgerAssumption ==
    /\ NoWatch \notin Watches /\ NoTrade \notin Trades
    /\ UserOps \subseteq {"stop_watch", "reset", "set_bankroll"}
    /\ MaxCrashes \in Nat /\ MaxFaults \in Nat

VARIABLES
    status,     \* row's status, "none" when there is no row
    reason,     \* row's reason, by what kind of writer wrote it
    link,       \* row's watch_id
    opener,     \* trade -> its open_trade request: [pc, at, watch]
    closer,     \* request -> its close_trade call: [pc, at, trade, seen, watch]
    phase,      \* watch -> where its task stands
    verdict,    \* watch -> WatchState.status, terminal ones taken together
    cancelling, \* watches whose task has been cancelled but has not unwound
    owner,      \* watch -> [trade, at]: what its terminal handler closes over
    server,     \* server -> "down", "resuming" or "up"
    resume,     \* server -> resume_open_watches: [pc, todo, trade, watch]
    wiping,     \* server -> paper_reset: "idle", "truncating", "truncated"
    override,   \* server -> the bankroll override: "default" or "custom"
    crashes, faults

rowVars == <<status, reason, link>>
watchVars == <<phase, verdict, cancelling, owner>>
serverVars == <<server, resume, wiping, override>>
bounds == <<crashes, faults>>
vars == <<status, reason, link, opener, closer, phase, verdict, cancelling,
          owner, server, resume, wiping, override, crashes, faults>>

Live == {"watching", "reading", "updating"}
OpenPending == {"inserting", "inserted", "abandoning", "linking", "confirming"}
ClosePending == {"reading", "read", "stopping", "updating", "confirming"}

Up(s) == server[s] = "up"
Fault == faults < MaxFaults /\ faults' = faults + 1 /\ UNCHANGED crashes

----------------------------------------------------------------------------
(* PaperTradeRepository *)

\* Mutants of CloseRow: status and reason are swapped; `status = 'running'` is
\* dropped; `id = ..` is dropped.
CloseRowSwapped(t, why) ==
    /\ status' = [status EXCEPT ![t] = IF @ = "running" THEN why ELSE @]
    /\ reason' = [reason EXCEPT ![t] = IF status[t] = "running" THEN "closed" ELSE @]
    /\ UNCHANGED link

CloseRowUnguarded(t, why) ==
    /\ status' = [status EXCEPT ![t] = IF @ = "none" THEN @ ELSE "closed"]
    /\ reason' = [reason EXCEPT ![t] = IF status[t] = "none" THEN @ ELSE why]
    /\ UNCHANGED link

CloseEveryRow(t, why) ==
    /\ status' = [u \in Trades |-> IF status[u] = "running" THEN "closed" ELSE status[u]]
    /\ reason' = [u \in Trades |-> IF status[u] = "running" THEN why ELSE reason[u]]
    /\ UNCHANGED link

\* close: UPDATE ... WHERE id = .. AND status = 'running'; the row count it
\* returns is ignored by both callers.
CloseRow(t, why) ==
    /\ status' = [status EXCEPT ![t] = IF @ = "running" THEN "closed" ELSE @]
    /\ reason' = [reason EXCEPT ![t] = IF status[t] = "running" THEN why ELSE @]
    /\ UNCHANGED link

\* mark_abandoned: guarded the same way.
AbandonRow(t) ==
    /\ status' = [status EXCEPT ![t] = IF @ = "running" THEN "abandoned" ELSE @]
    /\ reason' = [reason EXCEPT ![t] =
                     IF status[t] = "running" THEN "abandoned" ELSE @]
    /\ UNCHANGED link

\* set_watch_id: UPDATE ... WHERE id = .., whatever the status.
LinkTo(t, w) ==
    /\ link' = [link EXCEPT ![t] = IF status[t] = "none" THEN @ ELSE w]
    /\ UNCHANGED <<status, reason>>

----------------------------------------------------------------------------
(* PositionWatcher, as the ledger uses it *)

\* start: a fresh watch whose terminal handler is bound to trade t.
StartWatch(w, t, s) ==
    /\ phase[w] = "unused"
    /\ phase' = [phase EXCEPT ![w] = "watching"]
    /\ owner' = [owner EXCEPT ![w] = [trade |-> t, at |-> s]]
    /\ UNCHANGED <<verdict, cancelling>>

\* A tick raises stop_hit, take_hit or timeout: the status is terminal and the
\* waiters are woken before the handler has read the row.
WatchHits(w) ==
    /\ phase[w] = "watching" /\ w \notin cancelling
    /\ phase' = [phase EXCEPT ![w] = "reading"]
    /\ verdict' = [verdict EXCEPT ![w] = "hit"]
    /\ UNCHANGED <<rowVars, opener, closer, cancelling, owner, serverVars, bounds>>

\* The feed raises: status "error"; on_terminal is not called.
FeedFails(w) ==
    /\ phase[w] = "watching" /\ w \notin cancelling
    /\ Fault
    /\ phase' = [phase EXCEPT ![w] = "done"]
    /\ verdict' = [verdict EXCEPT ![w] = "error"]
    /\ UNCHANGED <<rowVars, opener, closer, cancelling, owner, serverVars>>

\* The terminal handler: fetch_by_id, and return unless the row is running.
HandlerReads(w) ==
    /\ phase[w] = "reading" /\ w \notin cancelling
    /\ phase' = [phase EXCEPT
           ![w] = IF status[owner[w].trade] = "running" THEN "updating" ELSE "done"]
    /\ UNCHANGED <<rowVars, opener, closer, verdict, cancelling, owner, serverVars,
                   bounds>>

\* The terminal handler: close with the event's price and type.
HandlerUpdates(w) ==
    /\ phase[w] = "updating" /\ w \notin cancelling
    /\ CloseRow(owner[w].trade, "hit")
    /\ phase' = [phase EXCEPT ![w] = "done"]
    /\ UNCHANGED <<opener, closer, verdict, cancelling, owner, serverVars, bounds>>

\* A database error in the handler: _run logs it and the task ends.
HandlerFails(w) ==
    /\ phase[w] \in {"reading", "updating"} /\ w \notin cancelling
    /\ Fault
    /\ phase' = [phase EXCEPT ![w] = "done"]
    /\ UNCHANGED <<rowVars, opener, closer, verdict, cancelling, owner, serverVars>>

\* Mutant of CancelLands: the verdict becomes "cancelled" whatever it was.
CancelRewritesVerdict(w) ==
    /\ w \in cancelling
    /\ cancelling' = cancelling \ {w}
    /\ phase' = [phase EXCEPT ![w] = "done"]
    /\ verdict' = [verdict EXCEPT ![w] = "cancelled"]
    /\ UNCHANGED <<rowVars, opener, closer, owner, serverVars, bounds>>

\* CancelledError unwinds the task.  An UPDATE that was under way has been
\* applied or not: the connection is released only once that is settled.
CancelLands(w) ==
    /\ w \in cancelling
    /\ cancelling' = cancelling \ {w}
    /\ phase' = [phase EXCEPT ![w] = "done"]
    /\ verdict' = [verdict EXCEPT ![w] = IF @ = "running" THEN "cancelled" ELSE @]
    /\ \/ UNCHANGED rowVars
       \/ phase[w] = "updating" /\ CloseRow(owner[w].trade, "hit")
    /\ UNCHANGED <<opener, closer, owner, serverVars, bounds>>

\* stop_watch, the tool: it cancels the watch and does not know the ledger.
\* The client has the id from the row, or from the trade that open returned.
UserStopsWatch(w) ==
    /\ "stop_watch" \in UserOps
    /\ phase[w] \in Live /\ Up(owner[w].at)
    /\ \E t \in Trades : link[t] = w \/ (opener[t].pc = "done" /\ opener[t].watch = w)
    /\ cancelling' = cancelling \cup {w}
    /\ UNCHANGED <<rowVars, opener, closer, phase, verdict, owner, serverVars, bounds>>

----------------------------------------------------------------------------
(* PaperLedgerService.open_trade: one request per trade *)

OpenerAt(t, pc) == [pc |-> pc, at |-> opener[t].at, watch |-> opener[t].watch]

AdvanceOpen(t, pc) == opener' = [opener EXCEPT ![t] = OpenerAt(t, pc)]

\* resolve, build the trade (its levels are valid) and call insert.
OpenBegins(t, s) ==
    /\ opener[t].pc = "idle" /\ Up(s)
    /\ opener' = [opener EXCEPT ![t] = [pc |-> "inserting", at |-> s, watch |-> NoWatch]]
    /\ UNCHANGED <<rowVars, closer, watchVars, serverVars, bounds>>

InsertRow(t) ==
    /\ opener[t].pc = "inserting"
    /\ status' = [status EXCEPT ![t] = "running"]
    /\ AdvanceOpen(t, "inserted")
    /\ UNCHANGED <<reason, link, closer, watchVars, serverVars, bounds>>

OpenStartsWatch(t, w) ==
    /\ opener[t].pc = "inserted"
    /\ StartWatch(w, t, opener[t].at)
    /\ opener' = [opener EXCEPT ![t] = [pc |-> "linking", at |-> @.at, watch |-> w]]
    /\ UNCHANGED <<rowVars, closer, serverVars, bounds>>

\* watcher.start raises a DomainError: the row is about to be abandoned.
OpenIsRefused(t) ==
    /\ opener[t].pc = "inserted"
    /\ AdvanceOpen(t, "abandoning")
    /\ UNCHANGED <<rowVars, closer, watchVars, serverVars, bounds>>

OpenAbandons(t) ==
    /\ opener[t].pc = "abandoning"
    /\ AbandonRow(t)
    /\ AdvanceOpen(t, "failed")
    /\ UNCHANGED <<closer, watchVars, serverVars, bounds>>

OpenLinks(t) ==
    /\ opener[t].pc = "linking"
    /\ LinkTo(t, opener[t].watch)
    /\ AdvanceOpen(t, "confirming")
    /\ UNCHANGED <<closer, watchVars, serverVars, bounds>>

\* fetch_by_id; assert fresh is not None.
OpenConfirms(t) ==
    /\ opener[t].pc = "confirming"
    /\ AdvanceOpen(t, IF status[t] = "none" THEN "assertion" ELSE "done")
    /\ UNCHANGED <<rowVars, closer, watchVars, serverVars, bounds>>

\* A database call fails, or the client's request is cancelled, at an await.
OpenAborts(t) ==
    /\ opener[t].pc \in OpenPending
    /\ Fault
    /\ AdvanceOpen(t, "failed")
    /\ UNCHANGED <<rowVars, closer, watchVars, serverVars>>

----------------------------------------------------------------------------
(* PaperLedgerService.close_trade *)

CloserAt(c, pc) == [pc |-> pc, at |-> closer[c].at, trade |-> closer[c].trade,
                    seen |-> closer[c].seen, watch |-> closer[c].watch]

AdvanceClose(c, pc) == closer' = [closer EXCEPT ![c] = CloserAt(c, pc)]

\* The caller knows the id of a trade as soon as its row can be listed.
CloseBegins(c, t, s) ==
    /\ closer[c].pc = "idle" /\ Up(s)
    /\ opener[t].pc \notin {"idle", "inserting"}
    /\ closer' = [closer EXCEPT ![c] =
           [pc |-> "reading", at |-> s, trade |-> t, seen |-> "none", watch |-> NoWatch]]
    /\ UNCHANGED <<rowVars, opener, watchVars, serverVars, bounds>>

CloseReads(c) ==
    LET t == closer[c].trade
    IN  /\ closer[c].pc = "reading"
        /\ closer' = [closer EXCEPT ![c] = [pc |-> "read", at |-> @.at, trade |-> t,
                                            seen |-> status[t], watch |-> link[t]]]
        /\ UNCHANGED <<rowVars, opener, watchVars, serverVars, bounds>>

\* TradeNotFoundError, or the idempotent return of a trade that is decided.
CloseReturnsEarly(c) ==
    /\ closer[c].pc = "read" /\ closer[c].seen # "running"
    /\ AdvanceClose(c, IF closer[c].seen = "none" THEN "not_found" ELSE "done")
    /\ UNCHANGED <<rowVars, opener, watchVars, serverVars, bounds>>

\* Mutant of CloseStopsWatch: a watch that has ended is taken to have closed
\* the trade.
CloseTrustsWatch(c) ==
    LET w == closer[c].watch
    IN  /\ closer[c].pc = "read" /\ closer[c].seen = "running"
        /\ IF w \in Watches /\ phase[w] \in Live /\ owner[w].at = closer[c].at
             THEN cancelling' = cancelling \cup {w} /\ AdvanceClose(c, "stopping")
             ELSE UNCHANGED cancelling /\ AdvanceClose(c, "confirming")
        /\ UNCHANGED <<rowVars, opener, phase, verdict, owner, serverVars, bounds>>

\* watcher.stop of the watch that was read.  An id that is null or unknown to
\* this server's registry, or whose task is done, leaves nothing to await.
CloseStopsWatch(c) ==
    LET w == closer[c].watch
    IN  /\ closer[c].pc = "read" /\ closer[c].seen = "running"
        /\ IF w \in Watches /\ phase[w] \in Live /\ owner[w].at = closer[c].at
             THEN cancelling' = cancelling \cup {w} /\ AdvanceClose(c, "stopping")
             ELSE UNCHANGED cancelling /\ AdvanceClose(c, "updating")
        /\ UNCHANGED <<rowVars, opener, phase, verdict, owner, serverVars, bounds>>

\* Mutants of CloseResumes: a watch that was hit is taken to have closed the
\* trade; the call waits for a verdict that a hit watch never gets.
CloseTrustsVerdict(c) ==
    /\ closer[c].pc = "stopping" /\ phase[closer[c].watch] = "done"
    /\ AdvanceClose(c, IF verdict[closer[c].watch] = "hit" THEN "confirming" ELSE "updating")
    /\ UNCHANGED <<rowVars, opener, watchVars, serverVars, bounds>>

CloseAwaitsCancelled(c) ==
    /\ closer[c].pc = "stopping" /\ verdict[closer[c].watch] = "cancelled"
    /\ AdvanceClose(c, "updating")
    /\ UNCHANGED <<rowVars, opener, watchVars, serverVars, bounds>>

CloseResumes(c) ==
    /\ closer[c].pc = "stopping" /\ phase[closer[c].watch] = "done"
    /\ AdvanceClose(c, "updating")
    /\ UNCHANGED <<rowVars, opener, watchVars, serverVars, bounds>>

CloseUpdates(c) ==
    /\ closer[c].pc = "updating"
    /\ CloseRow(closer[c].trade, "manual")
    /\ AdvanceClose(c, "confirming")
    /\ UNCHANGED <<opener, watchVars, serverVars, bounds>>

\* fetch_by_id; assert fresh is not None.
CloseConfirms(c) ==
    /\ closer[c].pc = "confirming"
    /\ AdvanceClose(c, IF status[closer[c].trade] = "none" THEN "assertion" ELSE "done")
    /\ UNCHANGED <<rowVars, opener, watchVars, serverVars, bounds>>

\* The same; while it waits for the watch, stop suppresses the cancellation.
CloseAborts(c) ==
    /\ closer[c].pc \in ClosePending \ {"stopping"}
    /\ Fault
    /\ AdvanceClose(c, "failed")
    /\ UNCHANGED <<rowVars, opener, watchVars, serverVars>>

----------------------------------------------------------------------------
(* paper_reset and paper_set_bankroll *)

ResetBegins(s) ==
    /\ "reset" \in UserOps /\ Up(s) /\ wiping[s] = "idle"
    /\ wiping' = [wiping EXCEPT ![s] = "truncating"]
    /\ UNCHANGED <<rowVars, opener, closer, watchVars, server, resume, override, bounds>>

\* TRUNCATE: every row goes; no watch is stopped.
ResetTruncates(s) ==
    /\ wiping[s] = "truncating"
    /\ wiping' = [wiping EXCEPT ![s] = "truncated"]
    /\ status' = [t \in Trades |-> "none"]
    /\ reason' = [t \in Trades |-> "none"]
    /\ link' = [t \in Trades |-> NoWatch]
    /\ UNCHANGED <<opener, closer, watchVars, server, resume, override, bounds>>

ResetEnds(s) ==
    /\ wiping[s] = "truncated"
    /\ wiping' = [wiping EXCEPT ![s] = "idle"]
    /\ override' = [override EXCEPT ![s] = "default"]
    /\ UNCHANGED <<rowVars, opener, closer, watchVars, server, resume, bounds>>

ResetFails(s) ==
    /\ wiping[s] \in {"truncating", "truncated"}
    /\ Fault
    /\ wiping' = [wiping EXCEPT ![s] = "idle"]
    /\ UNCHANGED <<rowVars, opener, closer, watchVars, server, resume, override>>

SetBankroll(s) ==
    /\ "set_bankroll" \in UserOps /\ Up(s)
    /\ override' = [override EXCEPT ![s] = "custom"]
    /\ UNCHANGED <<rowVars, opener, closer, watchVars, server, resume, wiping, bounds>>

----------------------------------------------------------------------------
(* The server: start-up with resume_open_watches, shutdown and crash *)

ResumeAt(pc, todo) == [pc |-> pc, todo |-> todo, trade |-> NoTrade, watch |-> NoWatch]
IdleResume == ResumeAt("idle", {})

ServerStarts(s) ==
    /\ server[s] = "down"
    /\ server' = [server EXCEPT ![s] = "resuming"]
    /\ resume' = [resume EXCEPT ![s] = ResumeAt("listing", {})]
    /\ UNCHANGED <<rowVars, opener, closer, watchVars, wiping, override, bounds>>

\* fetch_open.
ResumeLists(s) ==
    /\ resume[s].pc = "listing"
    /\ resume' = [resume EXCEPT
           ![s] = ResumeAt("next", {t \in Trades : status[t] = "running"})]
    /\ UNCHANGED <<rowVars, opener, closer, watchVars, server, wiping, override, bounds>>

\* Mutant of ResumeTakes: the trade stays on the list.
ResumeTakesAgain(s, t, pc, w) ==
    /\ resume[s].pc = "next" /\ t \in resume[s].todo
    /\ resume' = [resume EXCEPT
           ![s] = [pc |-> pc, todo |-> @.todo, trade |-> t, watch |-> w]]
    /\ UNCHANGED <<rowVars, opener, closer, server, wiping, override, bounds>>

ResumeTakes(s, t, pc, w) ==
    /\ resume[s].pc = "next" /\ t \in resume[s].todo
    /\ resume' = [resume EXCEPT
           ![s] = [pc |-> pc, todo |-> @.todo \ {t}, trade |-> t, watch |-> w]]
    /\ UNCHANGED <<rowVars, opener, closer, server, wiping, override, bounds>>

\* A fresh watch for a running trade.
ResumeStartsWatch(s, t, w) ==
    /\ ResumeTakes(s, t, "linking", w)
    /\ StartWatch(w, t, s)

\* The symbol no longer resolves, or start raises.
ResumeIsRefused(s, t) ==
    /\ ResumeTakes(s, t, "abandoning", NoWatch)
    /\ UNCHANGED watchVars

\* Mutant of ResumeNext: the trade is put back on the list.
ResumeRetries(s) == resume' = [resume EXCEPT
    ![s] = ResumeAt("next", resume[s].todo \cup {resume[s].trade})]

ResumeNext(s) == resume' = [resume EXCEPT
                     ![s] = ResumeAt("next", resume[s].todo)]

\* Mutant of ResumeLinks: the row keeps the watch_id of the server before.
ResumeForgetsLink(s) ==
    /\ resume[s].pc = "linking"
    /\ ResumeNext(s)
    /\ UNCHANGED <<rowVars, opener, closer, watchVars, server, wiping, override, bounds>>

ResumeLinks(s) ==
    /\ resume[s].pc = "linking"
    /\ LinkTo(resume[s].trade, resume[s].watch)
    /\ ResumeNext(s)
    /\ UNCHANGED <<opener, closer, watchVars, server, wiping, override, bounds>>

ResumeAbandons(s) ==
    /\ resume[s].pc = "abandoning"
    /\ AbandonRow(resume[s].trade)
    /\ ResumeNext(s)
    /\ UNCHANGED <<opener, closer, watchVars, server, wiping, override, bounds>>

\* The lifespan yields and tools are served.
ResumeEnds(s) ==
    /\ resume[s].pc = "next" /\ resume[s].todo = {}
    /\ resume' = [resume EXCEPT ![s] = IdleResume]
    /\ server' = [server EXCEPT ![s] = "up"]
    /\ UNCHANGED <<rowVars, opener, closer, watchVars, wiping, override, bounds>>

\* A database call of the loop raises: bootstrap logs it and serves anyway, with
\* whatever was resumed so far.
ResumeFails(s) ==
    /\ resume[s].pc \in {"listing", "linking", "abandoning"}
    /\ Fault
    /\ resume' = [resume EXCEPT ![s] = IdleResume]
    /\ server' = [server EXCEPT ![s] = "up"]
    /\ UNCHANGED <<rowVars, opener, closer, watchVars, wiping, override>>

\* A crash, or a shutdown that cancels every task: what the process held in
\* memory is gone, the rows stay.
ServerStops(s) ==
    /\ server[s] # "down" /\ crashes < MaxCrashes
    /\ crashes' = crashes + 1
    /\ server' = [server EXCEPT ![s] = "down"]
    /\ resume' = [resume EXCEPT ![s] = IdleResume]
    /\ wiping' = [wiping EXCEPT ![s] = "idle"]
    /\ override' = [override EXCEPT ![s] = "default"]
    /\ LET mine == {w \in Watches : phase[w] \in Live /\ owner[w].at = s}
       IN  /\ phase' = [w \in Watches |-> IF w \in mine THEN "done" ELSE phase[w]]
           /\ verdict' = [w \in Watches |->
                             IF w \in mine /\ verdict[w] = "running" THEN "lost"
                             ELSE verdict[w]]
           /\ cancelling' = cancelling \ mine
    /\ opener' = [t \in Trades |->
                     IF opener[t].pc \in OpenPending /\ opener[t].at = s
                     THEN OpenerAt(t, "failed") ELSE opener[t]]
    /\ closer' = [c \in Requests |->
                     IF closer[c].pc \in ClosePending /\ closer[c].at = s
                     THEN CloserAt(c, "failed") ELSE closer[c]]
    /\ UNCHANGED <<rowVars, owner, faults>>

----------------------------------------------------------------------------
Init ==
    /\ status = [t \in Trades |-> "none"]
    /\ reason = [t \in Trades |-> "none"]
    /\ link = [t \in Trades |-> NoWatch]
    /\ opener = [t \in Trades |-> [pc |-> "idle", at |-> "none", watch |-> NoWatch]]
    /\ closer = [c \in Requests |->
           [pc |-> "idle", at |-> "none", trade |-> NoTrade, seen |-> "none",
            watch |-> NoWatch]]
    /\ phase = [w \in Watches |-> "unused"]
    /\ verdict = [w \in Watches |-> "running"]
    /\ cancelling = {}
    /\ owner = [w \in Watches |-> [trade |-> NoTrade, at |-> "none"]]
    /\ server = [s \in Servers |-> "down"]
    /\ resume = [s \in Servers |-> IdleResume]
    /\ wiping = [s \in Servers |-> "idle"]
    /\ override = [s \in Servers |-> "default"]
    /\ crashes = 0 /\ faults = 0

OpenStep(t) ==
    \/ InsertRow(t) \/ (\E w \in Watches : OpenStartsWatch(t, w)) \/ OpenIsRefused(t)
    \/ OpenAbandons(t) \/ OpenLinks(t) \/ OpenConfirms(t)

CloseStep(c) ==
    \/ CloseReads(c) \/ CloseReturnsEarly(c) \/ CloseStopsWatch(c)
    \/ CloseResumes(c) \/ CloseUpdates(c) \/ CloseConfirms(c)

HandlerStep(w) == HandlerReads(w) \/ HandlerUpdates(w)

ResetStep(s) == ResetTruncates(s) \/ ResetEnds(s)

ResumeStep(s) ==
    \/ ResumeLists(s) \/ ResumeLinks(s) \/ ResumeAbandons(s) \/ ResumeEnds(s)
    \/ \E t \in Trades :
          (\E w \in Watches : ResumeStartsWatch(s, t, w)) \/ ResumeIsRefused(s, t)

TradeNext ==
    \E t \in Trades :
        OpenStep(t) \/ OpenAborts(t) \/ \E s \in Servers : OpenBegins(t, s)

RequestNext ==
    \E c \in Requests :
        CloseStep(c) \/ CloseAborts(c)
          \/ \E t \in Trades, s \in Servers : CloseBegins(c, t, s)

WatchNext ==
    \E w \in Watches :
        WatchHits(w) \/ FeedFails(w) \/ HandlerStep(w) \/ HandlerFails(w)
          \/ CancelLands(w) \/ UserStopsWatch(w)

ServerNext ==
    \E s \in Servers :
        ServerStarts(s) \/ ResumeStep(s) \/ ResumeFails(s) \/ ServerStops(s)
          \/ ResetBegins(s) \/ ResetStep(s) \/ ResetFails(s) \/ SetBankroll(s)

Next == TradeNext \/ RequestNext \/ WatchNext \/ ServerNext

Spec == Init /\ [][Next]_vars

\* The loop runs every coroutine whose database call has been answered, and the
\* database answers.  Nothing makes a price hit, a client call or a server start.
Fairness ==
    /\ \A t \in Trades : WF_vars(OpenStep(t))
    /\ \A c \in Requests : WF_vars(CloseStep(c))
    /\ \A w \in Watches : WF_vars(HandlerStep(w)) /\ WF_vars(CancelLands(w))
    /\ \A s \in Servers : WF_vars(ResetStep(s)) /\ WF_vars(ResumeStep(s))

FairSpec == Spec /\ Fairness

----------------------------------------------------------------------------
(* Properties *)

OpenPc == {"idle", "done", "failed", "assertion"} \cup OpenPending
ClosePc == {"idle", "done", "not_found", "failed", "assertion"} \cup ClosePending
RowStatus == {"none", "running", "closed", "abandoned"}
Anywhere == Servers \cup {"none"}
MaybeWatch == Watches \cup {NoWatch}
MaybeTrade == Trades \cup {NoTrade}

\* Every variable has its type.
TypeOK ==
    /\ status \in [Trades -> RowStatus]
    /\ reason \in [Trades -> {"none", "hit", "manual", "abandoned"}]
    /\ link \in [Trades -> MaybeWatch]
    /\ opener \in [Trades -> [pc : OpenPc, at : Anywhere, watch : MaybeWatch]]
    /\ closer \in [Requests -> [pc : ClosePc, at : Anywhere, trade : MaybeTrade,
                                seen : RowStatus, watch : MaybeWatch]]
    /\ phase \in [Watches -> {"unused", "done"} \cup Live]
    /\ verdict \in [Watches -> {"running", "hit", "error", "cancelled", "lost"}]
    /\ cancelling \subseteq Watches
    /\ owner \in [Watches -> [trade : MaybeTrade, at : Anywhere]]
    /\ server \in [Servers -> {"down", "resuming", "up"}]
    /\ resume \in [Servers -> [pc : {"idle", "listing", "next", "linking", "abandoning"},
                               todo : SUBSET Trades, trade : MaybeTrade,
                               watch : MaybeWatch]]
    /\ wiping \in [Servers -> {"idle", "truncating", "truncated"}]
    /\ override \in [Servers -> {"default", "custom"}]
    /\ crashes \in 0..MaxCrashes /\ faults \in 0..MaxFaults

\* The ledger as an outside observer of the table sees it.
TradeState(t) ==
    IF status[t] # "none" THEN status[t]
    ELSE IF opener[t].pc \in {"idle", "inserting"} THEN "new"
    ELSE "gone"

Lifecycle == INSTANCE TradeLifecycle
                 WITH state <- [t \in Trades |-> TradeState(t)]

\* The ledger implements the life of a trade: across racing requests, terminal
\* handlers, cancellations, crashes, resumes and several sessions, a trade is
\* decided at most once and its decision and reason are never rewritten.
DecidedOnce == Lifecycle!LifeSpec

\* Every step treats every watch as PositionWatch does: its watch is hit, broken,
\* cancelled or lost once, and its verdict is never taken back.
Stage(w) == IF phase[w] \in {"reading", "updating"} THEN "handling" ELSE phase[w]

Contract(w) == INSTANCE WatchLifecycle WITH stage <- Stage(w), verdict <- verdict[w]

WatchesKeepContract ==
    [][\A w \in Watches :
          Contract(w)!WatchNext \/ UNCHANGED Contract(w)!stageVars]_watchVars

\* A close request that returns a trade returns one that is decided, whoever
\* decided it: it never reports success on a trade that is still running.
ClosedMeansClosed ==
    \A c \in Requests :
        closer[c].pc = "done" => status[closer[c].trade] # "running"

Watched(t, w) == w \in Watches /\ phase[w] \in Live /\ owner[w].trade = t

\* A close request that has read the trade as running and has yet to decide it.
BeingClosed(t) ==
    \E c \in Requests :
        closer[c].trade = t /\ closer[c].pc \in {"stopping", "updating"}

Settled(t) ==
    /\ \A s \in Servers : Up(s)
    /\ opener[t].pc \notin {"inserted", "abandoning", "linking"}

\* While nothing fails and nobody calls stop_watch, a running trade whose row
\* can be seen is watched, and by the very watch its row names, so that
\* closing the trade stops it; a crash and a resume bring that back.
RunningIsWatched ==
    \A t \in Trades :
        status[t] = "running" /\ Settled(t) =>
            Watched(t, link[t]) \/ BeingClosed(t)

\* With one server, a trade is never watched twice, not even while a restarted
\* server resumes what the one before it was watching.
OneWatchPerTrade ==
    \A t \in Trades, v, w \in Watches : Watched(t, v) /\ Watched(t, w) => v = w

\* A trade closed by a terminal event was closed by a watch on that trade which
\* was hit; one closed by hand was asked for by a request for that trade.
ReasonIsTrue ==
    \A t \in Trades :
        /\ reason[t] = "hit" =>
              \E w \in Watches : owner[w].trade = t /\ verdict[w] = "hit"
        /\ reason[t] = "manual" =>
              \E c \in Requests : closer[c].trade = t /\ closer[c].pc \notin {"idle", "reading"}

\* Once a watch is hit its trade is decided, unless the server stops first: a
\* close request that cancels the handler half-way decides it in its place.
HitDecides ==
    \A w \in Watches, t \in Trades, s \in Servers :
        phase[w] \in {"reading", "updating"} /\ owner[w] = [trade |-> t, at |-> s]
            ~> status[t] # "running" \/ ~Up(s)

\* Every close request ends, also one that waits for the watch it cancelled.
CloseEnds ==
    \A c \in Requests : closer[c].pc = "reading" ~> closer[c].pc \notin ClosePending

\* A server that starts comes to serve, however many trades it has to resume.
ResumeFinishes == \A s \in Servers : server[s] = "resuming" ~> server[s] # "resuming"

=============================================================================
