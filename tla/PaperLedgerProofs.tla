------------------------- MODULE PaperLedgerProofs -------------------------
(* What holds of the paper ledger for any number of trades, requests, server *)
(* processes and watches, and any number of crashes and faults.              *)
EXTENDS PaperLedger, TLAPS

----------------------------------------------------------------------------
(* What a request, a watch and a resuming server refer to is a trade, and the *)
(* trade of a close request has been inserted.                               *)

Inserted(t) == t \in Trades /\ opener[t].pc \notin {"idle", "inserting"}

Referents ==
    /\ \A c \in Requests : closer[c].pc # "idle" => Inserted(closer[c].trade)
    /\ \A w \in Watches : phase[w] # "unused" => owner[w].trade \in Trades
    /\ \A s \in Servers :
          resume[s].pc \in {"linking", "abandoning"} => resume[s].trade \in Trades

----------------------------------------------------------------------------
(* Typing, group by group of the next-state relation *)

LEMMA TypeInit == Init => TypeOK
BY LedgerAssumption
   DEF Init, TypeOK, IdleResume, ResumeAt, OpenPc, ClosePc, RowStatus, Anywhere,
       MaybeWatch, MaybeTrade, Live, OpenPending, ClosePending

LEMMA TradeTypes ==
    ASSUME TypeOK, TradeNext
    PROVE  TypeOK'
<1> USE LedgerAssumption
    DEF TypeOK, OpenPc, RowStatus, Anywhere, MaybeWatch, MaybeTrade, Live, OpenPending,
        rowVars, watchVars, serverVars, bounds, AdvanceOpen, OpenerAt
<1>1. PICK t \in Trades : \/ OpenStep(t) \/ OpenAborts(t)
                          \/ \E s \in Servers : OpenBegins(t, s)
  BY DEF TradeNext
<1>2. CASE InsertRow(t)
  BY <1>2 DEF InsertRow
<1>3. ASSUME NEW w \in Watches, OpenStartsWatch(t, w) PROVE TypeOK'
  BY <1>3 DEF OpenStartsWatch, StartWatch
<1>4. CASE OpenIsRefused(t)
  BY <1>4 DEF OpenIsRefused
<1>5. CASE OpenAbandons(t)
  BY <1>5 DEF OpenAbandons, AbandonRow
<1>6. CASE OpenLinks(t)
  BY <1>6 DEF OpenLinks, LinkTo
<1>7. CASE OpenConfirms(t)
  BY <1>7 DEF OpenConfirms
<1>8. CASE OpenAborts(t)
  BY <1>8 DEF OpenAborts, Fault
<1>9. ASSUME NEW s \in Servers, OpenBegins(t, s) PROVE TypeOK'
  BY <1>9 DEF OpenBegins
<1> QED
  BY <1>1, <1>2, <1>3, <1>4, <1>5, <1>6, <1>7, <1>8, <1>9 DEF OpenStep

\* The guarded UPDATE keeps the types of the columns, whatever row it names.
LEMMA CloseRowTypes ==
    ASSUME TypeOK, NEW t, NEW why \in {"hit", "manual"}, CloseRow(t, why)
    PROVE  /\ status' \in [Trades -> RowStatus]
           /\ reason' \in [Trades -> {"none", "hit", "manual", "abandoned"}]
           /\ link' \in [Trades -> MaybeWatch]
<1>1. status' \in [Trades -> RowStatus]
  <2>1. status \in [Trades -> RowStatus] /\ "closed" \in RowStatus
    BY DEF TypeOK, RowStatus
  <2> QED
    BY <2>1 DEF CloseRow
<1>2. reason' \in [Trades -> {"none", "hit", "manual", "abandoned"}]
  <2>1. reason \in [Trades -> {"none", "hit", "manual", "abandoned"}]
    BY DEF TypeOK
  <2> QED
    BY <2>1 DEF CloseRow
<1> QED
  BY <1>1, <1>2 DEF CloseRow, TypeOK

LEMMA RequestTypes ==
    ASSUME TypeOK, Referents, RequestNext
    PROVE  TypeOK'
<1> USE LedgerAssumption
    DEF TypeOK, ClosePc, RowStatus, Anywhere, MaybeWatch, MaybeTrade, ClosePending,
        rowVars, watchVars, serverVars, bounds, AdvanceClose, CloserAt
<1>1. PICK c \in Requests :
          \/ CloseStep(c) \/ CloseAborts(c)
          \/ \E t \in Trades, s \in Servers : CloseBegins(c, t, s)
  BY DEF RequestNext
<1>2. CASE CloseReads(c)
  <2>1. closer[c].trade \in Trades
    BY <1>2 DEF CloseReads, Referents, Inserted
  <2>2. /\ status[closer[c].trade] \in RowStatus
        /\ link[closer[c].trade] \in MaybeWatch
    BY <2>1
  <2>3. closer' \in [Requests -> [pc : ClosePc, at : Anywhere, trade : MaybeTrade,
                                  seen : RowStatus, watch : MaybeWatch]]
    BY <1>2, <2>1, <2>2 DEF CloseReads
  <2> QED
    BY <1>2, <2>3 DEF CloseReads
<1>3. CASE CloseReturnsEarly(c)
  BY <1>3 DEF CloseReturnsEarly
<1>4. CASE CloseStopsWatch(c)
  <2>1. CASE UNCHANGED cancelling /\ AdvanceClose(c, "updating")
    BY <1>4, <2>1 DEF CloseStopsWatch
  <2>2. ASSUME NEW w \in Watches, cancelling' = cancelling \cup {w},
               AdvanceClose(c, "stopping")
        PROVE  TypeOK'
    BY <1>4, <2>2 DEF CloseStopsWatch
  <2> QED
    BY <1>4, <2>1, <2>2 DEF CloseStopsWatch
<1>5. CASE CloseResumes(c)
  BY <1>5 DEF CloseResumes
<1>6. CASE CloseUpdates(c)
  <2>1. /\ status' \in [Trades -> RowStatus]
        /\ reason' \in [Trades -> {"none", "hit", "manual", "abandoned"}]
        /\ link' \in [Trades -> MaybeWatch]
    BY <1>6, CloseRowTypes DEF CloseUpdates
  <2>2. closer' \in [Requests -> [pc : ClosePc, at : Anywhere, trade : MaybeTrade,
                                  seen : RowStatus, watch : MaybeWatch]]
    BY <1>6 DEF CloseUpdates
  <2> QED
    BY <1>6, <2>1, <2>2 DEF CloseUpdates
<1>7. CASE CloseConfirms(c)
  BY <1>7 DEF CloseConfirms
<1>8. CASE CloseAborts(c)
  BY <1>8 DEF CloseAborts, Fault
<1>9. ASSUME NEW t \in Trades, NEW s \in Servers, CloseBegins(c, t, s) PROVE TypeOK'
  BY <1>9 DEF CloseBegins
<1> QED
  BY <1>1, <1>2, <1>3, <1>4, <1>5, <1>6, <1>7, <1>8, <1>9 DEF CloseStep

LEMMA WatchTypes ==
    ASSUME TypeOK, WatchNext
    PROVE  TypeOK'
<1> USE LedgerAssumption
    DEF TypeOK, RowStatus, Live, rowVars, watchVars, serverVars, bounds
<1>1. PICK w \in Watches : \/ WatchHits(w) \/ FeedFails(w) \/ HandlerStep(w)
                           \/ HandlerFails(w) \/ CancelLands(w) \/ UserStopsWatch(w)
  BY DEF WatchNext
<1>2. CASE WatchHits(w)
  BY <1>2 DEF WatchHits
<1>3. CASE FeedFails(w)
  BY <1>3 DEF FeedFails, Fault
<1>4. CASE HandlerReads(w)
  BY <1>4 DEF HandlerReads
<1>5. CASE HandlerUpdates(w)
  <2>1. /\ status' \in [Trades -> RowStatus]
        /\ reason' \in [Trades -> {"none", "hit", "manual", "abandoned"}]
        /\ link' \in [Trades -> MaybeWatch]
    BY <1>5, CloseRowTypes DEF HandlerUpdates
  <2> QED
    BY <1>5, <2>1 DEF HandlerUpdates
<1>6. CASE HandlerFails(w)
  BY <1>6 DEF HandlerFails, Fault
<1>7. CASE CancelLands(w)
  <2>1. CASE UNCHANGED rowVars
    BY <1>7, <2>1 DEF CancelLands
  <2>2. CASE CloseRow(owner[w].trade, "hit")
    <3>1. /\ status' \in [Trades -> RowStatus]
          /\ reason' \in [Trades -> {"none", "hit", "manual", "abandoned"}]
          /\ link' \in [Trades -> MaybeWatch]
      BY <2>2, CloseRowTypes
    <3> QED
      BY <1>7, <3>1 DEF CancelLands
  <2> QED
    BY <1>7, <2>1, <2>2 DEF CancelLands
<1>8. CASE UserStopsWatch(w)
  BY <1>8 DEF UserStopsWatch
<1> QED
  BY <1>1, <1>2, <1>3, <1>4, <1>5, <1>6, <1>7, <1>8 DEF HandlerStep

LEMMA ServerTypes ==
    ASSUME TypeOK, ServerNext
    PROVE  TypeOK'
<1> USE LedgerAssumption
    DEF TypeOK, RowStatus, Anywhere, MaybeWatch, MaybeTrade, rowVars, watchVars,
        bounds, ResumeAt, IdleResume
<1>1. PICK s \in Servers :
          \/ ServerStarts(s) \/ ResumeStep(s) \/ ResumeFails(s) \/ ServerStops(s)
          \/ ResetBegins(s) \/ ResetStep(s) \/ ResetFails(s) \/ SetBankroll(s)
  BY DEF ServerNext
<1>2. CASE ServerStarts(s)
  BY <1>2 DEF ServerStarts
<1>3. CASE ResumeLists(s)
  BY <1>3 DEF ResumeLists
<1>4. CASE ResumeLinks(s)
  BY <1>4 DEF ResumeLinks, LinkTo, ResumeNext
<1>5. CASE ResumeAbandons(s)
  BY <1>5 DEF ResumeAbandons, AbandonRow, ResumeNext
<1>6. CASE ResumeEnds(s)
  BY <1>6 DEF ResumeEnds
<1>7. ASSUME NEW t \in Trades, NEW w \in Watches, ResumeStartsWatch(s, t, w)
      PROVE  TypeOK'
  BY <1>7 DEF ResumeStartsWatch, ResumeTakes, StartWatch, Live
<1>8. ASSUME NEW t \in Trades, ResumeIsRefused(s, t) PROVE TypeOK'
  BY <1>8 DEF ResumeIsRefused, ResumeTakes
<1>9. CASE ResumeFails(s)
  BY <1>9 DEF ResumeFails, Fault
<1>10. CASE ServerStops(s)
  BY <1>10 DEF ServerStops, OpenPc, ClosePc, OpenPending, ClosePending, OpenerAt,
               CloserAt, Live
<1>11. CASE ResetBegins(s)
  BY <1>11 DEF ResetBegins
<1>12. CASE ResetTruncates(s)
  BY <1>12 DEF ResetTruncates
<1>13. CASE ResetEnds(s)
  BY <1>13 DEF ResetEnds
<1>14. CASE ResetFails(s)
  BY <1>14 DEF ResetFails, Fault
<1>15. CASE SetBankroll(s)
  BY <1>15 DEF SetBankroll
<1> QED
  BY <1>1, <1>2, <1>3, <1>4, <1>5, <1>6, <1>7, <1>8, <1>9, <1>10, <1>11, <1>12,
     <1>13, <1>14, <1>15 DEF ResumeStep, ResetStep

LEMMA TypeNext ==
    ASSUME TypeOK, Referents, [Next]_vars
    PROVE  TypeOK'
<1>1. CASE UNCHANGED vars
  BY <1>1 DEF vars, TypeOK
<1> QED
  BY <1>1, TradeTypes, RequestTypes, WatchTypes, ServerTypes DEF Next

----------------------------------------------------------------------------
(* The inductive invariant *)

\* A row exists only once insert has run, and its reason is set when it is
\* decided, not before.
Rows ==
    \A t \in Trades :
        /\ opener[t].pc \in {"idle", "inserting"} => status[t] = "none"
        /\ status[t] \in {"none", "running"} => reason[t] = "none"

\* A close request that has found its trade decided, or has decided it, is
\* right about it from then on.
SaysDecided(c) ==
    \/ closer[c].pc = "read" /\ closer[c].seen # "running"
    \/ closer[c].pc \in {"confirming", "done"}

Decided ==
    \A c \in Requests : SaysDecided(c) => status[closer[c].trade] # "running"

\* The verdict of a watch follows the phase of its task.
Watching ==
    \A w \in Watches :
        /\ phase[w] \in {"unused", "watching"} => verdict[w] = "running"
        /\ phase[w] \in {"reading", "updating"} => verdict[w] = "hit"
        /\ w \in cancelling => phase[w] \in Live

IInv == TypeOK /\ Referents /\ Rows /\ Decided /\ Watching /\ ReasonIsTrue

LEMMA InvInit == Init => IInv
<1> SUFFICES ASSUME Init PROVE IInv
  OBVIOUS
<1>1. TypeOK
  BY TypeInit
<1>2. Referents /\ Rows /\ Decided /\ Watching /\ ReasonIsTrue
  BY DEF Init, Referents, Rows, Decided, SaysDecided, Watching, ReasonIsTrue, IdleResume,
         ResumeAt
<1> QED
  BY <1>1, <1>2 DEF IInv

LEMMA TradeInv ==
    ASSUME IInv, TradeNext
    PROVE  IInv'
<1> USE DEF OpenPending, rowVars, watchVars, serverVars, bounds, AdvanceOpen, OpenerAt
<1>1. TypeOK /\ TypeOK'
  BY TradeTypes DEF IInv
<1>2. PICK t \in Trades : \/ OpenStep(t) \/ OpenAborts(t)
                          \/ \E s \in Servers : OpenBegins(t, s)
  BY DEF TradeNext
<1>3. UNCHANGED <<closer, resume>>
  BY <1>2 DEF OpenStep, InsertRow, OpenStartsWatch, OpenIsRefused, OpenAbandons, OpenLinks,
              OpenConfirms, OpenAborts, OpenBegins
<1>4. \A u \in Trades : Inserted(u) => Inserted(u)'
  <2>1. \A u \in Trades \ {t} : opener'[u] = opener[u]
    BY <1>1, <1>2 DEF TypeOK, OpenStep, InsertRow, OpenStartsWatch, OpenIsRefused,
       OpenAbandons, OpenLinks, OpenConfirms, OpenAborts, OpenBegins
  <2>2. opener[t].pc = "idle" \/ opener'[t].pc \notin {"idle", "inserting"}
    BY <1>1, <1>2 DEF TypeOK, OpenStep, InsertRow, OpenStartsWatch, OpenIsRefused,
       OpenAbandons, OpenLinks, OpenConfirms, OpenAborts, OpenBegins
  <2> QED
    BY <2>1, <2>2 DEF Inserted
<1>5. Referents'
  <2>1. CASE UNCHANGED <<phase, owner>>
    BY <2>1, <1>3, <1>4 DEF IInv, Referents, Inserted
  <2>2. ASSUME NEW w \in Watches, StartWatch(w, t, opener[t].at) PROVE Referents'
    BY <2>2, <1>1, <1>3, <1>4 DEF IInv, Referents, Inserted, StartWatch, TypeOK
  <2> QED
    BY <1>2, <2>1, <2>2 DEF OpenStep, InsertRow, OpenStartsWatch, OpenIsRefused,
       OpenAbandons, OpenLinks, OpenConfirms, OpenAborts, OpenBegins
<1>6. Rows'
  <2>1. CASE InsertRow(t)
    BY <2>1, <1>1 DEF IInv, Rows, TypeOK, InsertRow
  <2>2. CASE OpenAbandons(t)
    BY <2>2, <1>1 DEF IInv, Rows, TypeOK, OpenAbandons, AbandonRow
  <2>3. CASE UNCHANGED <<status, reason>>
    BY <2>3, <1>1, <1>4 DEF IInv, Rows, Inserted
  <2> QED
    BY <1>2, <2>1, <2>2, <2>3 DEF OpenStep, OpenStartsWatch, OpenIsRefused, OpenLinks,
       LinkTo, OpenConfirms, OpenAborts, OpenBegins
<1>7. Decided'
  <2>1. ASSUME NEW c \in Requests, SaysDecided(c)
        PROVE  status'[closer[c].trade] # "running"
    <3>1. Inserted(closer[c].trade) /\ status[closer[c].trade] # "running"
      BY <2>1 DEF IInv, Referents, Decided, SaysDecided
    <3>2. CASE InsertRow(t)
      BY <3>1, <3>2, <1>1 DEF InsertRow, TypeOK, Inserted
    <3>3. CASE OpenAbandons(t)
      BY <3>1, <3>3, <1>1 DEF OpenAbandons, AbandonRow, TypeOK, Inserted
    <3>4. CASE UNCHANGED status
      BY <3>1, <3>4
    <3> QED
      BY <1>2, <3>2, <3>3, <3>4 DEF OpenStep, OpenStartsWatch, OpenIsRefused, OpenLinks,
         LinkTo, OpenConfirms, OpenAborts, OpenBegins
  <2> QED
    BY <2>1, <1>3 DEF Decided, SaysDecided
<1>8. Watching' /\ ReasonIsTrue'
  <2>1. UNCHANGED <<verdict, cancelling>>
    BY <1>2 DEF OpenStep, InsertRow, OpenStartsWatch, StartWatch, OpenIsRefused,
       OpenAbandons, OpenLinks, OpenConfirms, OpenAborts, OpenBegins
  <2>2. CASE UNCHANGED <<phase, owner>>
    <3>1. Watching'
      BY <2>1, <2>2 DEF IInv, Watching
    <3>2. \A u \in Trades : reason'[u] \in {reason[u], "abandoned"}
      BY <1>1, <1>2 DEF OpenStep, InsertRow, OpenStartsWatch, OpenIsRefused, OpenAbandons,
         AbandonRow, OpenLinks, LinkTo, OpenConfirms, OpenAborts, OpenBegins, TypeOK
    <3>3. ReasonIsTrue'
      BY <2>1, <2>2, <3>2, <1>3 DEF IInv, ReasonIsTrue
    <3> QED
      BY <3>1, <3>3
  <2>3. ASSUME NEW w \in Watches, OpenStartsWatch(t, w) PROVE Watching' /\ ReasonIsTrue'
    <3>1. Watching'
      BY <2>3, <1>1 DEF IInv, Watching, OpenStartsWatch, StartWatch, TypeOK, Live
    <3>2. verdict[w] = "running" /\ \A v \in Watches \ {w} : owner'[v] = owner[v]
      BY <2>3, <1>1 DEF IInv, Watching, OpenStartsWatch, StartWatch, TypeOK
    <3>3. ReasonIsTrue'
      BY <2>3, <2>1, <3>2, <1>3 DEF IInv, ReasonIsTrue, OpenStartsWatch
    <3> QED
      BY <3>1, <3>3
  <2> QED
    BY <1>2, <2>2, <2>3 DEF OpenStep, InsertRow, OpenIsRefused, OpenAbandons, OpenLinks,
       OpenConfirms, OpenAborts, OpenBegins
<1> QED
  BY <1>1, <1>5, <1>6, <1>7, <1>8 DEF IInv

LEMMA RequestInv ==
    ASSUME IInv, RequestNext
    PROVE  IInv'
<1> USE DEF ClosePending, rowVars, watchVars, serverVars, bounds, AdvanceClose, CloserAt
<1>1. TypeOK /\ TypeOK'
  BY RequestTypes DEF IInv
<1>2. PICK c \in Requests :
          \/ CloseStep(c) \/ CloseAborts(c)
          \/ \E t \in Trades, s \in Servers : CloseBegins(c, t, s)
  BY DEF RequestNext
<1>3. UNCHANGED <<opener, phase, verdict, owner, resume>>
  BY <1>2 DEF CloseStep, CloseReads, CloseReturnsEarly, CloseStopsWatch, CloseResumes,
     CloseUpdates, CloseConfirms, CloseAborts, CloseBegins
<1>4. CASE \E t \in Trades, s \in Servers : CloseBegins(c, t, s)
  <2>1. PICK t \in Trades, s \in Servers : CloseBegins(c, t, s)
    BY <1>4
  <2>2. Referents'
    BY <2>1, <1>1, <1>3 DEF IInv, Referents, Inserted, CloseBegins, TypeOK
  <2>3. Rows' /\ Watching'
    BY <2>1, <1>3 DEF IInv, Rows, Watching, CloseBegins
  <2>4. Decided'
    BY <2>1, <1>1 DEF IInv, Decided, SaysDecided, CloseBegins, TypeOK
  <2>5. ReasonIsTrue'
    BY <2>1, <1>1 DEF IInv, ReasonIsTrue, CloseBegins, TypeOK
  <2> QED
    BY <1>1, <2>2, <2>3, <2>4, <2>5 DEF IInv
<1>5. ASSUME CloseStep(c) \/ CloseAborts(c) PROVE IInv'
  <2>1. /\ closer[c].pc # "idle" /\ closer'[c].pc \notin {"idle", "reading"}
        /\ closer'[c].trade = closer[c].trade
        /\ \A d \in Requests \ {c} : closer'[d] = closer[d]
    BY <1>1, <1>5 DEF TypeOK, CloseStep, CloseReads, CloseReturnsEarly, CloseStopsWatch,
       CloseResumes, CloseUpdates, CloseConfirms, CloseAborts
  <2>2. Inserted(closer[c].trade)
    BY <2>1 DEF IInv, Referents
  <2>3. Referents'
    BY <2>1, <2>2, <1>3 DEF IInv, Referents, Inserted
  <2>4. Watching'
    BY <1>1, <1>3, <1>5 DEF IInv, Watching, TypeOK, CloseStep, CloseReads,
       CloseReturnsEarly, CloseStopsWatch, CloseResumes, CloseUpdates, CloseConfirms,
       CloseAborts
  <2>5. CASE CloseUpdates(c)
    <3>1. Rows'
      BY <2>5, <1>1, <2>2 DEF IInv, Rows, CloseUpdates, CloseRow, TypeOK, Inserted
    <3>2. Decided'
      <4>1. \A t \in Trades : status'[t] = "running"
                                => status[t] = "running" /\ t # closer[c].trade
        BY <2>5, <1>1, <2>2 DEF CloseUpdates, CloseRow, TypeOK, Inserted
      <4>2. ASSUME NEW d \in Requests, SaysDecided(d)' PROVE closer'[d].trade \in Trades
        BY <2>3, <4>2 DEF Referents, Inserted, SaysDecided
      <4>3. ASSUME NEW d \in Requests \ {c}, SaysDecided(d)'
            PROVE  status[closer'[d].trade] # "running"
        BY <2>1, <4>3 DEF IInv, Decided, SaysDecided
      <4>4. ASSUME NEW d \in Requests, SaysDecided(d)'
            PROVE  status'[closer'[d].trade] # "running"
        BY <2>1, <4>1, <4>2, <4>3, <4>4
      <4> QED
        BY <4>4 DEF Decided, SaysDecided
    <3>3. ReasonIsTrue'
      <4>1. \A t \in Trades : \/ reason'[t] = reason[t]
                              \/ t = closer[c].trade /\ reason'[t] = "manual"
        BY <2>5, <1>1, <2>2 DEF CloseUpdates, CloseRow, TypeOK, Inserted
      <4>2. \A d \in Requests : closer'[d].trade = closer[d].trade
        BY <2>1
      <4>3. \A d \in Requests : closer[d].pc \notin {"idle", "reading"}
                                 => closer'[d].pc \notin {"idle", "reading"}
        BY <2>1
      <4>4. ASSUME NEW t \in Trades, reason'[t] = "manual"
            PROVE  \E d \in Requests : /\ closer'[d].trade = t
                                       /\ closer'[d].pc \notin {"idle", "reading"}
        <5>1. CASE reason'[t] = reason[t]
          BY <4>2, <4>3, <4>4, <5>1 DEF IInv, ReasonIsTrue
        <5>2. CASE t = closer[c].trade
          BY <2>1, <5>2
        <5> QED
          BY <4>1, <5>1, <5>2
      <4>5. ASSUME NEW t \in Trades, reason'[t] = "hit"
            PROVE  \E w \in Watches : owner[w].trade = t /\ verdict[w] = "hit"
        BY <4>1, <4>5 DEF IInv, ReasonIsTrue
      <4> QED
        BY <1>3, <4>4, <4>5 DEF ReasonIsTrue
    <3> QED
      BY <1>1, <2>3, <2>4, <3>1, <3>2, <3>3 DEF IInv
  <2>6. ASSUME ~CloseUpdates(c) PROVE IInv'
    <3>1. UNCHANGED <<status, reason>>
      BY <1>5, <2>6 DEF CloseStep, CloseReads, CloseReturnsEarly, CloseStopsWatch,
         CloseResumes, CloseConfirms, CloseAborts
    <3>2. Rows'
      BY <3>1, <1>3 DEF IInv, Rows
    <3>3. ReasonIsTrue'
      BY <3>1, <1>3, <2>1 DEF IInv, ReasonIsTrue
    <3>4. SaysDecided(c)' => status[closer[c].trade] # "running"
      BY <1>1, <1>5, <2>6, <2>2 DEF IInv, Decided, SaysDecided, TypeOK, Inserted, CloseStep,
         CloseReads, CloseReturnsEarly, CloseStopsWatch, CloseResumes, CloseConfirms,
         CloseAborts
    <3>5. Decided'
      BY <3>1, <3>4, <2>1 DEF IInv, Decided, SaysDecided
    <3> QED
      BY <1>1, <2>3, <2>4, <3>2, <3>3, <3>5 DEF IInv
  <2> QED
    BY <2>5, <2>6
<1> QED
  BY <1>2, <1>4, <1>5

LEMMA WatchInv ==
    ASSUME IInv, WatchNext
    PROVE  IInv'
<1> USE DEF rowVars, watchVars, serverVars, bounds
<1>1. TypeOK /\ TypeOK'
  BY WatchTypes DEF IInv
<1>2. PICK w \in Watches : \/ WatchHits(w) \/ FeedFails(w) \/ HandlerStep(w)
                           \/ HandlerFails(w) \/ CancelLands(w) \/ UserStopsWatch(w)
  BY DEF WatchNext
<1>3. UNCHANGED <<opener, closer, owner, resume>>
  BY <1>2 DEF WatchHits, FeedFails, HandlerStep, HandlerReads, HandlerUpdates,
     HandlerFails, CancelLands, UserStopsWatch
<1>4. phase[w] # "unused" /\ owner[w].trade \in Trades
  <2>1. phase[w] \in Live
    BY <1>2 DEF IInv, Watching, WatchHits, FeedFails, HandlerStep, HandlerReads,
       HandlerUpdates, HandlerFails, CancelLands, UserStopsWatch, Live
  <2> QED
    BY <2>1 DEF IInv, Referents, Live
<1>5. \A v \in Watches \ {w} : phase'[v] = phase[v] /\ verdict'[v] = verdict[v]
  BY <1>1, <1>2 DEF TypeOK, WatchHits, FeedFails, HandlerStep, HandlerReads,
     HandlerUpdates, HandlerFails, CancelLands, UserStopsWatch
<1>6. Referents'
  BY <1>3, <1>4, <1>5 DEF IInv, Referents, Inserted
<1>7. /\ phase'[w] \in {"unused", "watching"} => verdict'[w] = "running"
      /\ phase'[w] \in {"reading", "updating"} => verdict'[w] = "hit"
      /\ verdict[w] = "hit" => verdict'[w] = "hit"
  BY <1>1, <1>2, <1>4 DEF IInv, Watching, TypeOK, WatchHits, FeedFails, HandlerStep,
     HandlerReads, HandlerUpdates, HandlerFails, CancelLands, UserStopsWatch, Live
<1>8. \A v \in cancelling' : phase'[v] \in Live
  BY <1>1, <1>2 DEF IInv, Watching, TypeOK, WatchHits, FeedFails, HandlerStep,
     HandlerReads, HandlerUpdates, HandlerFails, CancelLands, UserStopsWatch, Live
<1>9. Watching'
  BY <1>5, <1>7, <1>8 DEF IInv, Watching
<1>10. \/ UNCHANGED <<status, reason>>
       \/ phase[w] = "updating" /\ CloseRow(owner[w].trade, "hit")
  BY <1>2 DEF WatchHits, FeedFails, HandlerStep, HandlerReads, HandlerUpdates,
     HandlerFails, CancelLands, UserStopsWatch
<1>11. \A t \in Trades :
          /\ status'[t] = "running" => status[t] = "running"
          /\ status[t] = "none" => status'[t] = "none"
          /\ \/ status'[t] = status[t] /\ reason'[t] = reason[t]
             \/ /\ status'[t] = "closed" /\ reason'[t] = "hit"
                /\ phase[w] = "updating" /\ t = owner[w].trade
  BY <1>1, <1>4, <1>10 DEF TypeOK, CloseRow
<1>12. Rows'
  BY <1>3, <1>11 DEF IInv, Rows
<1>13. Decided'
  BY <1>3, <1>11 DEF IInv, Decided, SaysDecided, Referents, Inserted
<1>14. ReasonIsTrue'
  <2>1. \A v \in Watches : verdict[v] = "hit" => verdict'[v] = "hit"
    BY <1>5, <1>7
  <2>2. ASSUME NEW t \in Trades, reason'[t] = "hit"
        PROVE  \E v \in Watches : owner'[v].trade = t /\ verdict'[v] = "hit"
    <3>1. CASE reason[t] = "hit"
      BY <2>1, <3>1, <1>3 DEF IInv, ReasonIsTrue
    <3>2. CASE phase[w] = "updating" /\ t = owner[w].trade
      BY <2>1, <3>2, <1>3 DEF IInv, Watching
    <3> QED
      BY <1>11, <2>2, <3>1, <3>2
  <2>3. ASSUME NEW t \in Trades, reason'[t] = "manual"
        PROVE  \E c \in Requests : /\ closer'[c].trade = t
                                   /\ closer'[c].pc \notin {"idle", "reading"}
    BY <1>3, <1>11, <2>3 DEF IInv, ReasonIsTrue
  <2> QED
    BY <2>2, <2>3 DEF ReasonIsTrue
<1> QED
  BY <1>1, <1>6, <1>9, <1>12, <1>13, <1>14 DEF IInv

LEMMA ServerInv ==
    ASSUME IInv, ServerNext
    PROVE  IInv'
<1> USE DEF rowVars, watchVars, bounds, ResumeAt, IdleResume
<1>1. TypeOK /\ TypeOK'
  BY ServerTypes DEF IInv
<1>2. PICK s \in Servers :
          \/ ServerStarts(s) \/ ResumeStep(s) \/ ResumeFails(s) \/ ServerStops(s)
          \/ ResetBegins(s) \/ ResetStep(s) \/ ResetFails(s) \/ SetBankroll(s)
  BY DEF ServerNext
<1>3. \A r \in Servers : resume'[r].pc \in {"linking", "abandoning"}
                          => resume'[r].trade \in Trades
  BY <1>1, <1>2 DEF IInv, Referents, TypeOK, ServerStarts, ResumeStep, ResumeLists,
     ResumeLinks, ResumeAbandons, ResumeNext, ResumeEnds, ResumeStartsWatch,
     ResumeIsRefused, ResumeTakes, ResumeFails, ServerStops, ResetBegins, ResetStep,
     ResetTruncates, ResetEnds, ResetFails, SetBankroll
<1>4. CASE ServerStops(s)
  <2>1. /\ UNCHANGED <<rowVars, owner>>
        /\ \A t \in Trades : opener'[t].pc # opener[t].pc
                              => opener[t].pc \in OpenPending /\ opener'[t].pc = "failed"
        /\ \A c \in Requests :
              /\ closer'[c].trade = closer[c].trade /\ closer'[c].seen = closer[c].seen
              /\ closer'[c].pc # closer[c].pc
                    => closer[c].pc \in ClosePending /\ closer'[c].pc = "failed"
    BY <1>1, <1>4 DEF ServerStops, TypeOK, OpenerAt, CloserAt
  <2>2. \A w \in Watches :
            /\ phase'[w] # phase[w] => phase[w] \in Live /\ phase'[w] = "done"
            /\ verdict[w] # "running" => verdict'[w] = verdict[w]
            /\ phase'[w] # "done" => verdict'[w] = verdict[w]
            /\ w \in cancelling' => w \in cancelling /\ phase'[w] = phase[w]
    BY <1>1, <1>4 DEF ServerStops, TypeOK
  <2>3. Referents'
    BY <1>3, <2>1, <2>2 DEF IInv, Referents, Inserted, OpenPending, ClosePending, Live
  <2>4. Rows'
    <3>1. ASSUME NEW t \in Trades PROVE opener'[t].pc \in {"idle", "inserting"}
                                           => opener[t].pc = opener'[t].pc
      BY <2>1
    <3> QED
      BY <2>1, <3>1 DEF IInv, Rows
  <2>5. Decided'
    BY <2>1 DEF IInv, Decided, SaysDecided, ClosePending
  <2>6. Watching'
    BY <2>2 DEF IInv, Watching, Live
  <2>7. ReasonIsTrue'
    BY <2>1, <2>2 DEF IInv, ReasonIsTrue, ClosePending
  <2> QED
    BY <1>1, <2>3, <2>4, <2>5, <2>6, <2>7 DEF IInv
<1>5. ASSUME ~ServerStops(s) PROVE IInv'
  <2>1. UNCHANGED <<opener, closer, verdict, cancelling>>
    BY <1>2, <1>5 DEF ServerStarts, ResumeStep, ResumeLists, ResumeLinks, ResumeAbandons,
       ResumeEnds, ResumeStartsWatch, StartWatch, ResumeIsRefused, ResumeTakes,
       ResumeFails, ResetBegins, ResetStep, ResetTruncates, ResetEnds, ResetFails,
       SetBankroll
  <2>2. \/ UNCHANGED <<phase, owner>>
        \/ \E t \in Trades, w \in Watches : StartWatch(w, t, s)
    BY <1>2, <1>5 DEF ServerStarts, ResumeStep, ResumeLists, ResumeLinks, ResumeAbandons,
       ResumeEnds, ResumeStartsWatch, ResumeIsRefused, ResumeFails, ResetBegins,
       ResetStep, ResetTruncates, ResetEnds, ResetFails, SetBankroll
  <2>3. Watching' /\ Referents' /\ \A v \in Watches : verdict[v] # "running"
                                                       => owner'[v] = owner[v]
    <3>1. CASE UNCHANGED <<phase, owner>>
      BY <1>3, <2>1, <3>1 DEF IInv, Watching, Referents, Inserted
    <3>2. ASSUME NEW t \in Trades, NEW w \in Watches, StartWatch(w, t, s)
          PROVE  Watching' /\ Referents' /\ \A v \in Watches : verdict[v] # "running"
                                                               => owner'[v] = owner[v]
      <4>1. verdict[w] = "running" /\ w \notin cancelling
        BY <3>2 DEF StartWatch, IInv, Watching, Live
      <4>2. owner'[w].trade = t /\ \A v \in Watches \ {w} : owner'[v] = owner[v]
        BY <1>1, <3>2 DEF StartWatch, TypeOK
      <4>3. phase'[w] = "watching" /\ \A v \in Watches \ {w} : phase'[v] = phase[v]
        BY <1>1, <3>2 DEF StartWatch, TypeOK
      <4>4. Watching'
        BY <2>1, <4>1, <4>3 DEF IInv, Watching
      <4>5. Referents'
        BY <1>3, <2>1, <4>2, <4>3 DEF IInv, Referents, Inserted
      <4> QED
        BY <4>1, <4>2, <4>4, <4>5
    <3> QED
      BY <2>2, <3>1, <3>2
  <2>4. \/ UNCHANGED <<status, reason>>
        \/ ResumeAbandons(s)
        \/ ResetTruncates(s)
    BY <1>2, <1>5 DEF ServerStarts, ResumeStep, ResumeLists, ResumeLinks, LinkTo,
       ResumeEnds, ResumeStartsWatch, ResumeIsRefused, ResumeTakes, ResumeFails,
       ResetBegins, ResetStep, ResetEnds, ResetFails, SetBankroll
  <2>5. \A t \in Trades :
          /\ status'[t] = "running" => status[t] = "running"
          /\ status[t] = "none" => status'[t] = "none"
          /\ \/ status'[t] = status[t] /\ reason'[t] = reason[t]
             \/ status'[t] = "abandoned" /\ reason'[t] = "abandoned"
             \/ status'[t] = "none" /\ reason'[t] = "none"
    BY <1>1, <2>4 DEF ResumeAbandons, AbandonRow, ResetTruncates, TypeOK
  <2>6. Rows'
    BY <2>1, <2>5 DEF IInv, Rows
  <2>7. Decided'
    BY <2>1, <2>5 DEF IInv, Decided, SaysDecided, Referents, Inserted
  <2>8. ReasonIsTrue'
    BY <2>1, <2>3, <2>5 DEF IInv, ReasonIsTrue
  <2> QED
    BY <1>1, <2>3, <2>6, <2>7, <2>8 DEF IInv
<1> QED
  BY <1>4, <1>5

LEMMA InvNext ==
    ASSUME IInv, [Next]_vars
    PROVE  IInv'
<1>1. CASE UNCHANGED vars
  BY <1>1 DEF vars, IInv, TypeOK, Referents, Inserted, Rows, Decided, SaysDecided, Watching,
     ReasonIsTrue
<1> QED
  BY <1>1, TradeInv, RequestInv, WatchInv, ServerInv DEF Next

\* The inductive invariant holds in every reachable state.
THEOREM LedgerInvariant == Spec => []IInv
BY InvInit, InvNext, PTL DEF Spec

----------------------------------------------------------------------------
(* The invariants the runs check *)

\* Every variable keeps its type, whatever the constants are.
THEOREM LedgerTypes == Spec => []TypeOK
<1>1. IInv => TypeOK
  BY DEF IInv
<1> QED
  BY <1>1, LedgerInvariant, PTL

\* close_trade returns a trade only when it is decided, however requests,
\* handlers, cancellations, crashes and resumes interleave.
THEOREM LedgerClosedMeansClosed == Spec => []ClosedMeansClosed
<1>1. IInv => ClosedMeansClosed
  BY DEF IInv, Decided, SaysDecided, ClosedMeansClosed
<1> QED
  BY <1>1, LedgerInvariant, PTL

\* The reason of a closed trade names a writer that really was there: a watch
\* on that trade that was hit, or a request to close that trade.
THEOREM LedgerReasonIsTrue == Spec => []ReasonIsTrue
<1>1. IInv => ReasonIsTrue
  BY DEF IInv
<1> QED
  BY <1>1, LedgerInvariant, PTL

----------------------------------------------------------------------------
(* The ledger implements the life of a trade *)

LEMMA LifeStarts == Init => Lifecycle!LifeInit
BY DEF Init, Lifecycle!LifeInit, TradeState

\* A step that moves one trade and leaves the others alone is a Move.
LEMMA OneMoves ==
    ASSUME NEW t \in Trades, NEW from, NEW to, NEW why,
           TradeState(t) = from, TradeState(t)' = to,
           \A u \in Trades \ {t} : TradeState(u)' = TradeState(u),
           reason' = [reason EXCEPT ![t] = why]
    PROVE  Lifecycle!Move(t, from, to, why)
BY DEF Lifecycle!Move

\* What a guarded UPDATE does to the abstract state: it decides one running
\* trade, or nothing happens.
LEMMA CloseIsLife ==
    ASSUME IInv, NEW t \in Trades, NEW why \in Lifecycle!CloseReason,
           CloseRow(t, why), UNCHANGED opener
    PROVE  [Lifecycle!LifeNext]_Lifecycle!lifeVars
<1>1. CASE status[t] = "running"
  <2>1. Lifecycle!Move(t, "running", "closed", why)
    BY <1>1 DEF IInv, TypeOK, CloseRow, Lifecycle!Move, TradeState
  <2> QED
    BY <2>1 DEF Lifecycle!LifeNext, Lifecycle!Close
<1>2. CASE status[t] # "running"
  <2>1. UNCHANGED <<status, reason>>
    BY <1>2 DEF IInv, TypeOK, CloseRow
  <2> QED
    BY <2>1 DEF Lifecycle!lifeVars, TradeState
<1> QED
  BY <1>1, <1>2

LEMMA AbandonIsLife ==
    ASSUME IInv, NEW t \in Trades, AbandonRow(t),
           \A u \in Trades : Inserted(u) = Inserted(u)'
    PROVE  [Lifecycle!LifeNext]_Lifecycle!lifeVars
<1>0. \A u \in Trades : opener[u].pc \in {"idle", "inserting"}
                         <=> opener'[u].pc \in {"idle", "inserting"}
  BY DEF Inserted
<1>1. CASE status[t] = "running"
  <2>1. Lifecycle!Move(t, "running", "abandoned", "abandoned")
    BY <1>0, <1>1 DEF IInv, TypeOK, AbandonRow, Lifecycle!Move, TradeState
  <2> QED
    BY <2>1 DEF Lifecycle!LifeNext, Lifecycle!Abandon
<1>2. CASE status[t] # "running"
  <2>1. UNCHANGED <<status, reason>>
    BY <1>2 DEF IInv, TypeOK, AbandonRow
  <2> QED
    BY <1>0, <2>1 DEF Lifecycle!lifeVars, TradeState
<1> QED
  BY <1>1, <1>2

LEMMA TradeIsLife ==
    ASSUME IInv, TradeNext
    PROVE  [Lifecycle!LifeNext]_Lifecycle!lifeVars
<1> USE DEF OpenPending, rowVars, watchVars, serverVars, bounds, AdvanceOpen, OpenerAt
<1>1. PICK t \in Trades : \/ OpenStep(t) \/ OpenAborts(t)
                          \/ \E s \in Servers : OpenBegins(t, s)
  BY DEF TradeNext
<1>2. CASE InsertRow(t)
  <2>1. Lifecycle!Move(t, "new", "running", "none")
    <3>1. TradeState(t) = "new" /\ TradeState(t)' = "running"
      BY <1>2 DEF IInv, TypeOK, Rows, InsertRow, TradeState
    <3>2. \A u \in Trades \ {t} : TradeState(u)' = TradeState(u)
      BY <1>2 DEF IInv, TypeOK, InsertRow, TradeState
    <3>3. reason' = [reason EXCEPT ![t] = "none"]
      BY <1>2 DEF IInv, TypeOK, Rows, InsertRow
    <3> QED
      BY <3>1, <3>2, <3>3, OneMoves
  <2> QED
    BY <2>1 DEF Lifecycle!LifeNext, Lifecycle!Open
<1>3. CASE OpenAbandons(t)
  <2>1. \A u \in Trades : Inserted(u) = Inserted(u)'
    BY <1>3 DEF IInv, TypeOK, OpenAbandons, Inserted
  <2> QED
    BY <1>3, <2>1, AbandonIsLife DEF OpenAbandons
<1>4. CASE OpenAborts(t) /\ opener[t].pc = "inserting"
  <2>1. Lifecycle!Move(t, "new", "gone", "none")
    <3>1. TradeState(t) = "new" /\ TradeState(t)' = "gone"
      BY <1>4 DEF IInv, TypeOK, Rows, OpenAborts, TradeState
    <3>2. \A u \in Trades \ {t} : TradeState(u)' = TradeState(u)
      BY <1>4 DEF IInv, TypeOK, OpenAborts, TradeState
    <3>3. reason' = [reason EXCEPT ![t] = "none"]
      BY <1>4 DEF IInv, TypeOK, Rows, OpenAborts
    <3> QED
      BY <3>1, <3>2, <3>3, OneMoves
  <2> QED
    BY <2>1 DEF Lifecycle!LifeNext, Lifecycle!Refuse
<1>5. ASSUME ~InsertRow(t), ~OpenAbandons(t),
             ~(OpenAborts(t) /\ opener[t].pc = "inserting")
      PROVE  UNCHANGED Lifecycle!lifeVars
  <2>1. UNCHANGED <<status, reason>>
    BY <1>1, <1>5 DEF OpenStep, OpenStartsWatch, OpenIsRefused, OpenLinks, LinkTo,
       OpenConfirms, OpenAborts, OpenBegins
  <2>2. \A u \in Trades : opener[u].pc \in {"idle", "inserting"}
                          <=> opener'[u].pc \in {"idle", "inserting"}
    <3> DEFINE Early == {"idle", "inserting"}
    <3>5. ASSUME NEW pc, pc \notin Early, opener[t].pc \notin Early, AdvanceOpen(t, pc)
          PROVE  \A u \in Trades : opener[u].pc \in Early <=> opener'[u].pc \in Early
      BY <3>5 DEF IInv, TypeOK
    <3>1. CASE OpenIsRefused(t) \/ OpenLinks(t) \/ OpenConfirms(t)
      <4>1. opener[t].pc \notin Early
        BY <3>1 DEF OpenIsRefused, OpenLinks, OpenConfirms
      <4>2. \E pc \in {"abandoning", "confirming", "assertion", "done"} : AdvanceOpen(t, pc)
        BY <3>1 DEF OpenIsRefused, OpenLinks, OpenConfirms
      <4> QED
        BY <3>5, <4>1, <4>2
    <3>2. ASSUME NEW w \in Watches, OpenStartsWatch(t, w)
          PROVE  \A u \in Trades : opener[u].pc \in {"idle", "inserting"}
                                   <=> opener'[u].pc \in {"idle", "inserting"}
      BY <3>2 DEF IInv, TypeOK, OpenStartsWatch
    <3>3. CASE OpenAborts(t)
      BY <1>5, <3>3 DEF IInv, TypeOK, OpenAborts
    <3>4. ASSUME NEW s \in Servers, OpenBegins(t, s)
          PROVE  \A u \in Trades : opener[u].pc \in {"idle", "inserting"}
                                   <=> opener'[u].pc \in {"idle", "inserting"}
      BY <3>4 DEF IInv, TypeOK, OpenBegins
    <3> QED
      BY <1>1, <1>5, <3>1, <3>2, <3>3, <3>4 DEF OpenStep
  <2> QED
    BY <2>1, <2>2 DEF Lifecycle!lifeVars, TradeState
<1> QED
  BY <1>2, <1>3, <1>4, <1>5

LEMMA RequestIsLife ==
    ASSUME IInv, RequestNext
    PROVE  [Lifecycle!LifeNext]_Lifecycle!lifeVars
<1> USE DEF rowVars, watchVars, serverVars, bounds
<1>1. PICK c \in Requests :
          \/ CloseStep(c) \/ CloseAborts(c)
          \/ \E t \in Trades, s \in Servers : CloseBegins(c, t, s)
  BY DEF RequestNext
<1>2. CASE CloseUpdates(c)
  <2>1. closer[c].trade \in Trades
    BY <1>2 DEF CloseUpdates, IInv, Referents, Inserted
  <2> QED
    BY <1>2, <2>1, CloseIsLife DEF CloseUpdates, Lifecycle!CloseReason
<1>3. ASSUME ~CloseUpdates(c) PROVE UNCHANGED Lifecycle!lifeVars
  <2>1. UNCHANGED <<status, reason, opener>>
    BY <1>1, <1>3 DEF CloseStep, CloseReads, CloseReturnsEarly, CloseStopsWatch,
       CloseResumes, CloseConfirms, CloseAborts, CloseBegins
  <2> QED
    BY <2>1 DEF Lifecycle!lifeVars, TradeState
<1> QED
  BY <1>2, <1>3

LEMMA WatchIsLife ==
    ASSUME IInv, WatchNext
    PROVE  [Lifecycle!LifeNext]_Lifecycle!lifeVars
<1> USE DEF rowVars, watchVars, serverVars, bounds
<1>1. PICK w \in Watches : \/ WatchHits(w) \/ FeedFails(w) \/ HandlerStep(w)
                           \/ HandlerFails(w) \/ CancelLands(w) \/ UserStopsWatch(w)
  BY DEF WatchNext
<1>2. UNCHANGED opener
  BY <1>1 DEF WatchHits, FeedFails, HandlerStep, HandlerReads, HandlerUpdates,
     HandlerFails, CancelLands, UserStopsWatch
<1>3. CASE phase[w] = "updating" /\ CloseRow(owner[w].trade, "hit")
  <2>1. owner[w].trade \in Trades
    BY <1>3 DEF IInv, Referents
  <2> QED
    BY <1>2, <1>3, <2>1, CloseIsLife DEF Lifecycle!CloseReason
<1>4. CASE UNCHANGED <<status, reason>>
  BY <1>2, <1>4 DEF Lifecycle!lifeVars, TradeState
<1> QED
  BY <1>1, <1>3, <1>4 DEF WatchHits, FeedFails, HandlerStep, HandlerReads, HandlerUpdates,
     HandlerFails, CancelLands, UserStopsWatch

LEMMA ServerIsLife ==
    ASSUME IInv, ServerNext
    PROVE  [Lifecycle!LifeNext]_Lifecycle!lifeVars
<1> USE DEF rowVars, watchVars, bounds
<1>1. PICK s \in Servers :
          \/ ServerStarts(s) \/ ResumeStep(s) \/ ResumeFails(s) \/ ServerStops(s)
          \/ ResetBegins(s) \/ ResetStep(s) \/ ResetFails(s) \/ SetBankroll(s)
  BY DEF ServerNext
<1>2. CASE ServerStops(s)
  <2> DEFINE ts == {t \in Trades : opener[t].pc = "inserting" /\ opener[t].at = s}
  <2>1. UNCHANGED <<status, reason>>
    BY <1>2 DEF ServerStops
  <2>2. \A t \in Trades :
            IF opener[t].pc \in OpenPending /\ opener[t].at = s
            THEN opener'[t].pc = "failed" ELSE opener'[t].pc = opener[t].pc
    BY <1>2 DEF ServerStops, OpenerAt
  <2>3. \A t \in ts : TradeState(t) = "new"
    BY DEF IInv, Rows, TradeState
  <2>4. \A t \in Trades : TradeState(t)' = IF t \in ts THEN "gone" ELSE TradeState(t)
    BY <2>1, <2>2 DEF IInv, TypeOK, Rows, TradeState, OpenPending
  <2>5. Lifecycle!RefuseMany
    <3>1. ts \in SUBSET {t \in Trades : [u \in Trades |-> TradeState(u)][t] = "new"}
      BY <2>3
    <3>2. [t \in Trades |-> TradeState(t)]'
            = [t \in Trades |-> IF t \in ts THEN "gone"
                                ELSE [u \in Trades |-> TradeState(u)][t]]
      BY <2>4
    <3> QED
      BY <2>1, <3>1, <3>2 DEF Lifecycle!RefuseMany
  <2> QED
    BY <2>5 DEF Lifecycle!LifeNext
<1>3. CASE ResetTruncates(s)
  <2>1. \A t \in Trades : TradeState(t)' = IF TradeState(t) = "new" THEN "new" ELSE "gone"
    BY <1>3 DEF IInv, TypeOK, RowStatus, Rows, ResetTruncates, TradeState
  <2>2. Lifecycle!Wipe
    BY <1>3, <2>1 DEF ResetTruncates, Lifecycle!Wipe
  <2> QED
    BY <2>2 DEF Lifecycle!LifeNext
<1>4. CASE ResumeAbandons(s)
  <2>1. resume[s].trade \in Trades
    BY <1>4 DEF ResumeAbandons, IInv, Referents
  <2>2. AbandonRow(resume[s].trade) /\ UNCHANGED opener
    BY <1>4 DEF ResumeAbandons
  <2>3. \A u \in Trades : Inserted(u) = Inserted(u)'
    BY <2>2 DEF Inserted
  <2> QED
    BY <2>1, <2>2, <2>3, AbandonIsLife
<1>5. ASSUME ~ServerStops(s), ~ResetTruncates(s), ~ResumeAbandons(s)
      PROVE  UNCHANGED Lifecycle!lifeVars
  <2>1. UNCHANGED <<status, reason, opener>>
    BY <1>1, <1>5 DEF ServerStarts, ResumeStep, ResumeLists, ResumeLinks, LinkTo,
       ResumeEnds, ResumeStartsWatch, ResumeIsRefused, ResumeTakes, ResumeFails,
       ResetBegins, ResetStep, ResetEnds, ResetFails, SetBankroll
  <2> QED
    BY <2>1 DEF Lifecycle!lifeVars, TradeState
<1> QED
  BY <1>2, <1>3, <1>4, <1>5

\* The ledger implements TradeLifecycle: a trade is decided at most once, and
\* neither its decision nor its reason is ever rewritten.
THEOREM LedgerDecidesOnce == Spec => DecidedOnce
<1>1. IInv /\ [Next]_vars => [Lifecycle!LifeNext]_Lifecycle!lifeVars
  <2>1. UNCHANGED vars => UNCHANGED Lifecycle!lifeVars
    BY DEF vars, Lifecycle!lifeVars, TradeState
  <2> QED
    BY <2>1, TradeIsLife, RequestIsLife, WatchIsLife, ServerIsLife DEF Next
<1> QED
  BY <1>1, LifeStarts, LedgerInvariant, PTL DEF Spec, DecidedOnce, Lifecycle!LifeSpec

----------------------------------------------------------------------------
(* Every watch keeps the contract of PositionWatch *)

\* What each watch does in a step, seen as the contract sees it.
LEMMA ContractStep ==
    ASSUME IInv, Next, NEW w \in Watches
    PROVE  Contract(w)!WatchNext \/ UNCHANGED Contract(w)!stageVars
<1> USE DEF rowVars, watchVars, serverVars, bounds
<1>1. TypeOK /\ Watching
  BY DEF IInv
<1>2. CASE UNCHANGED <<phase, verdict>>
  BY <1>2 DEF Contract!stageVars, Stage
<1>3. ASSUME NEW v \in Watches, NEW t, NEW s, StartWatch(v, t, s)
      PROVE  Contract(w)!WatchNext \/ UNCHANGED Contract(w)!stageVars
  <2>1. CASE v = w
    <3>1. Contract(w)!Begin
      BY <1>1, <1>3, <2>1 DEF StartWatch, TypeOK, Contract!Begin, Stage
    <3> QED
      BY <3>1 DEF Contract!WatchNext
  <2>2. CASE v # w
    BY <1>1, <1>3, <2>2 DEF StartWatch, TypeOK, Contract!stageVars, Stage
  <2> QED
    BY <2>1, <2>2
<1>4. ASSUME NEW v \in Watches \ {w},
             \A u \in Watches \ {v} : phase'[u] = phase[u] /\ verdict'[u] = verdict[u]
      PROVE  UNCHANGED Contract(w)!stageVars
  BY <1>4 DEF Contract!stageVars, Stage
<1>5. CASE WatchNext
  <2>1. PICK v \in Watches : \/ WatchHits(v) \/ FeedFails(v) \/ HandlerStep(v)
                             \/ HandlerFails(v) \/ CancelLands(v) \/ UserStopsWatch(v)
    BY <1>5 DEF WatchNext
  <2>2. \A u \in Watches \ {v} : phase'[u] = phase[u] /\ verdict'[u] = verdict[u]
    BY <1>1, <2>1 DEF TypeOK, WatchHits, FeedFails, HandlerStep, HandlerReads,
       HandlerUpdates, HandlerFails, CancelLands, UserStopsWatch
  <2>3. CASE v = w
    <3>1. CASE WatchHits(w)
      BY <1>1, <3>1 DEF WatchHits, TypeOK, Watching, Contract!Hit, Contract!WatchNext, Stage
    <3>2. CASE FeedFails(w)
      BY <1>1, <3>2 DEF FeedFails, TypeOK, Contract!Break, Contract!WatchNext, Stage
    <3>3. CASE HandlerReads(w)
      BY <1>1, <3>3 DEF HandlerReads, TypeOK, Contract!HandlerOver, Contract!WatchNext,
         Contract!stageVars, Stage
    <3>4. CASE HandlerUpdates(w) \/ HandlerFails(w)
      BY <1>1, <3>4 DEF HandlerUpdates, HandlerFails, TypeOK, Contract!HandlerOver,
         Contract!WatchNext, Stage
    <3>5. CASE CancelLands(w)
      BY <1>1, <3>5 DEF CancelLands, TypeOK, Watching, Live, Contract!Unwind,
         Contract!WatchNext, Stage
    <3>6. CASE UserStopsWatch(w)
      BY <1>2, <3>6 DEF UserStopsWatch
    <3> QED
      BY <2>1, <2>3, <3>1, <3>2, <3>3, <3>4, <3>5, <3>6 DEF HandlerStep
  <2> QED
    BY <1>4, <2>2, <2>3
<1>6. CASE TradeNext \/ RequestNext
  <2>1. \/ UNCHANGED <<phase, verdict>>
        \/ \E v \in Watches, t \in Trades : StartWatch(v, t, opener[t].at)
    BY <1>6 DEF TradeNext, OpenStep, InsertRow, OpenStartsWatch, OpenIsRefused,
       OpenAbandons, OpenLinks, OpenConfirms, OpenAborts, OpenBegins, RequestNext,
       CloseStep, CloseReads, CloseReturnsEarly, CloseStopsWatch, CloseResumes,
       CloseUpdates, CloseConfirms, CloseAborts, CloseBegins
  <2> QED
    BY <1>2, <1>3, <2>1
<1>7. ASSUME NEW s \in Servers, ServerStops(s)
      PROVE  Contract(w)!WatchNext \/ UNCHANGED Contract(w)!stageVars
  <2>1. CASE phase[w] \in Live /\ owner[w].at = s
    BY <1>1, <1>7, <2>1 DEF ServerStops, TypeOK, Live, Contract!Unwind,
       Contract!WatchNext, Stage
  <2>2. CASE ~(phase[w] \in Live /\ owner[w].at = s)
    BY <1>1, <1>7, <2>2 DEF ServerStops, TypeOK, Contract!stageVars, Stage
  <2> QED
    BY <2>1, <2>2
<1>8. CASE ServerNext
  <2>1. PICK s \in Servers :
            \/ ServerStarts(s) \/ ResumeStep(s) \/ ResumeFails(s) \/ ServerStops(s)
            \/ ResetBegins(s) \/ ResetStep(s) \/ ResetFails(s) \/ SetBankroll(s)
    BY <1>8 DEF ServerNext
  <2>2. \/ UNCHANGED <<phase, verdict>> \/ ServerStops(s)
        \/ \E v \in Watches, t \in Trades : StartWatch(v, t, s)
    BY <2>1 DEF ServerStarts, ResumeStep, ResumeLists, ResumeLinks, ResumeAbandons,
       ResumeEnds, ResumeStartsWatch, ResumeIsRefused, ResumeFails, ResetBegins,
       ResetStep, ResetTruncates, ResetEnds, ResetFails, SetBankroll
  <2> QED
    BY <1>2, <1>3, <1>7, <2>2
<1> QED
  BY <1>5, <1>6, <1>8 DEF Next

\* Each watch of the ledger does only what PositionWatch allows: it is hit,
\* broken, cancelled or lost once, and its verdict is final.
THEOREM LedgerWatchesKeepContract == Spec => WatchesKeepContract
<1>1. IInv /\ [Next]_vars
        => [\A w \in Watches :
               Contract(w)!WatchNext \/ UNCHANGED Contract(w)!stageVars]_watchVars
  <2>1. UNCHANGED vars => UNCHANGED watchVars
    BY DEF vars, watchVars
  <2> QED
    BY <2>1, ContractStep
<1> QED
  BY <1>1, LedgerInvariant, PTL DEF Spec, WatchesKeepContract

----------------------------------------------------------------------------
(* Who watches a paper trade: with one server nobody watches it twice, and   *)
(* while nothing fails a running trade is watched by the watch its row       *)
(* names. Both need to know where the ids of watches are at any time (Ids,   *)
(* Fresh) and which trades a server still has to resume (Serving).           *)

(* Where the ids of watches are                                              *)

\* Whatever holds the id of a watch of a trade holds one of that trade.
Names(w, t) == w \in Watches => phase[w] # "unused" /\ owner[w].trade = t

Ids ==
    /\ \A w \in Watches :
          phase[w] # "unused" => Inserted(owner[w].trade) /\ owner[w].at \in Servers
    /\ \A t \in Trades : Names(link[t], t)
    /\ \A c \in Requests : Names(closer[c].watch, closer[c].trade)

\* A server serves requests when it is up and resumes when it is not, and only
\* trades that were inserted.
Serving ==
    /\ \A t \in Trades :
          opener[t].pc \in OpenPending => opener[t].at \in Servers /\ Up(opener[t].at)
    /\ \A s \in Servers :
          /\ server[s] # "resuming" => resume[s] = IdleResume
          /\ resume[s].pc = "listing" => resume[s].todo = {}
          /\ resume[s].pc \notin {"linking", "abandoning"} => resume[s].trade = NoTrade
          /\ \A t \in Trades :
                t \in resume[s].todo \/ t = resume[s].trade => Inserted(t)

\* Server s has started watch w for trade t and is about to write its id.
Linking(t, w, s) ==
    \/ opener[t].pc = "linking" /\ opener[t].watch = w /\ opener[t].at = s
    \/ resume[s].pc = "linking" /\ resume[s].trade = t /\ resume[s].watch = w

Unseen(w) ==
    /\ \A t \in Trades : link[t] # w
    /\ \A c \in Requests : closer[c].watch # w
    /\ w \in cancelling => "stop_watch" \in UserOps

\* Until then the watch is known to nobody else.
Fresh ==
    \A t \in Trades, w \in MaybeWatch, s \in Servers :
        Linking(t, w, s) =>
            /\ w \in Watches /\ phase[w] # "unused" /\ owner[w] = [trade |-> t, at |-> s]
            /\ Unseen(w)

Known == IInv /\ Ids /\ Serving /\ Fresh

----------------------------------------------------------------------------
(* What a step can do to the ids of watches *)

\* A trade that was inserted stays so, whatever becomes of its row.
LEMMA TradesStay ==
    ASSUME IInv, Next, NEW t \in Trades, Inserted(t)
    PROVE  Inserted(t)'
<1> USE DEF Inserted, IInv, TypeOK
<1>1. CASE TradeNext
  <2>1. PICK u \in Trades : \/ OpenStep(u) \/ OpenAborts(u)
                            \/ \E s \in Servers : OpenBegins(u, s)
    BY <1>1 DEF TradeNext
  <2>7. ASSUME NEW pc, pc \notin {"idle", "inserting"}, AdvanceOpen(u, pc)
        PROVE  Inserted(t)'
    BY <2>7 DEF AdvanceOpen, OpenerAt
  <2>2. CASE InsertRow(u)
    BY <2>2, <2>7 DEF InsertRow
  <2>3. CASE OpenIsRefused(u) \/ OpenAbandons(u) \/ OpenLinks(u) \/ OpenConfirms(u)
    BY <2>3, <2>7 DEF OpenIsRefused, OpenAbandons, OpenLinks, OpenConfirms
  <2>4. ASSUME NEW w \in Watches, OpenStartsWatch(u, w) PROVE Inserted(t)'
    BY <2>4 DEF OpenStartsWatch
  <2>5. CASE OpenAborts(u)
    BY <2>5, <2>7 DEF OpenAborts
  <2>6. ASSUME NEW s \in Servers, OpenBegins(u, s) PROVE Inserted(t)'
    BY <2>6 DEF OpenBegins, OpenerAt
  <2> QED
    BY <2>1, <2>2, <2>3, <2>4, <2>5, <2>6 DEF OpenStep
<1>2. CASE RequestNext \/ WatchNext
  BY <1>2 DEF RequestNext, CloseStep, CloseReads, CloseReturnsEarly, CloseStopsWatch,
     CloseResumes, CloseUpdates, CloseConfirms, CloseAborts, CloseBegins, WatchNext,
     WatchHits, FeedFails, HandlerStep, HandlerReads, HandlerUpdates, HandlerFails,
     CancelLands, UserStopsWatch
<1>3. CASE ServerNext
  <2>1. PICK s \in Servers :
            \/ ServerStarts(s) \/ ResumeStep(s) \/ ResumeFails(s) \/ ServerStops(s)
            \/ ResetBegins(s) \/ ResetStep(s) \/ ResetFails(s) \/ SetBankroll(s)
    BY <1>3 DEF ServerNext
  <2>2. CASE ServerStops(s)
    BY <2>2 DEF ServerStops, OpenerAt
  <2> QED
    BY <2>1, <2>2 DEF ServerStarts, ResumeStep, ResumeLists, ResumeLinks, ResumeAbandons,
       ResumeEnds, ResumeStartsWatch, ResumeIsRefused, ResumeTakes, ResumeFails,
       ResetBegins, ResetStep, ResetTruncates, ResetEnds, ResetFails, SetBankroll
<1> QED
  BY <1>1, <1>2, <1>3 DEF Next

\* A watch goes its way until it is done, or it is started; its owner is final.
LEMMA WatchesMove ==
    ASSUME IInv, Next, NEW w \in Watches
    PROVE  \/ phase'[w] = phase[w] /\ owner'[w] = owner[w]
           \/ phase[w] \in Live /\ phase'[w] # "unused" /\ owner'[w] = owner[w]
           \/ \E t \in Trades : OpenStartsWatch(t, w)
           \/ \E t \in Trades, s \in Servers : ResumeStartsWatch(s, t, w)
<1> USE DEF IInv, TypeOK, Live, watchVars
<1>1. CASE TradeNext
  <2>1. PICK u \in Trades : \/ OpenStep(u) \/ OpenAborts(u)
                            \/ \E s \in Servers : OpenBegins(u, s)
    BY <1>1 DEF TradeNext
  <2>2. ASSUME NEW v \in Watches, OpenStartsWatch(u, v), v # w
        PROVE  phase'[w] = phase[w] /\ owner'[w] = owner[w]
    BY <2>2 DEF OpenStartsWatch, StartWatch
  <2>3. UNCHANGED <<phase, owner>> \/ \E v \in Watches : OpenStartsWatch(u, v)
    BY <2>1 DEF OpenStep, InsertRow, OpenIsRefused, OpenAbandons, OpenLinks, OpenConfirms,
       OpenAborts, OpenBegins
  <2> QED
    BY <2>2, <2>3
<1>2. CASE RequestNext
  BY <1>2 DEF RequestNext, CloseStep, CloseReads, CloseReturnsEarly, CloseStopsWatch,
     CloseResumes, CloseUpdates, CloseConfirms, CloseAborts, CloseBegins
<1>3. CASE WatchNext
  <2>1. PICK v \in Watches : \/ WatchHits(v) \/ FeedFails(v) \/ HandlerStep(v)
                             \/ HandlerFails(v) \/ CancelLands(v) \/ UserStopsWatch(v)
    BY <1>3 DEF WatchNext
  <2>2. UNCHANGED owner /\ phase[v] \in Live
    BY <2>1 DEF Watching, WatchHits, FeedFails, HandlerStep, HandlerReads, HandlerUpdates,
       HandlerFails, CancelLands, UserStopsWatch
  <2>3. phase'[v] # "unused" /\ (v # w => phase'[w] = phase[w])
    BY <2>1, <2>2 DEF WatchHits, FeedFails, HandlerStep, HandlerReads, HandlerUpdates,
       HandlerFails, CancelLands, UserStopsWatch
  <2> QED
    BY <2>2, <2>3
<1>4. CASE ServerNext
  <2>1. PICK s \in Servers :
            \/ ServerStarts(s) \/ ResumeStep(s) \/ ResumeFails(s) \/ ServerStops(s)
            \/ ResetBegins(s) \/ ResetStep(s) \/ ResetFails(s) \/ SetBankroll(s)
    BY <1>4 DEF ServerNext
  <2>2. CASE ServerStops(s)
    BY <2>2 DEF ServerStops
  <2>3. ASSUME NEW t \in Trades, NEW v \in Watches, ResumeStartsWatch(s, t, v), v # w
        PROVE  phase'[w] = phase[w] /\ owner'[w] = owner[w]
    BY <2>3 DEF ResumeStartsWatch, StartWatch
  <2>4. \/ UNCHANGED <<phase, owner>> \/ ServerStops(s)
        \/ \E t \in Trades, v \in Watches : ResumeStartsWatch(s, t, v)
    BY <2>1 DEF ServerStarts, ResumeStep, ResumeLists, ResumeLinks, ResumeAbandons,
       ResumeEnds, ResumeIsRefused, ResumeTakes, ResumeFails,
       ResetBegins, ResetStep, ResetTruncates, ResetEnds, ResetFails, SetBankroll
  <2> QED
    BY <2>2, <2>3, <2>4
<1> QED
  BY <1>1, <1>2, <1>3, <1>4 DEF Next

LEMMA WatchesStay ==
    ASSUME IInv, Next, NEW w \in Watches, phase[w] # "unused"
    PROVE  phase'[w] # "unused" /\ owner'[w] = owner[w]
BY WatchesMove DEF OpenStartsWatch, ResumeStartsWatch, StartWatch

\* A row's watch_id is left alone, wiped with the row, or replaced by the one that
\* open_trade or a resuming server has to write.
LEMMA RowsMove ==
    ASSUME IInv, Next, NEW t \in Trades
    PROVE  \/ link'[t] = link[t]
           \/ link'[t] = NoWatch /\ status'[t] = "none"
           \/ OpenLinks(t) /\ link'[t] = opener[t].watch
           \/ \E s \in Servers : /\ ResumeLinks(s) /\ resume[s].trade = t
                                 /\ link'[t] = resume[s].watch
<1> USE DEF IInv, TypeOK, rowVars
<1>1. CASE TradeNext
  <2>1. PICK u \in Trades : \/ OpenStep(u) \/ OpenAborts(u)
                            \/ \E s \in Servers : OpenBegins(u, s)
    BY <1>1 DEF TradeNext
  <2>2. CASE OpenLinks(u)
    <3>1. link'[t] = link[t] \/ (u = t /\ link'[t] = opener[u].watch)
      BY <2>2 DEF OpenLinks, LinkTo
    <3> QED
      BY <2>2, <3>1
  <2>3. ASSUME ~OpenLinks(u) PROVE UNCHANGED link
    BY <2>1, <2>3 DEF OpenStep, InsertRow, OpenStartsWatch, OpenIsRefused, OpenAbandons,
       AbandonRow, OpenConfirms, OpenAborts, OpenBegins
  <2> QED
    BY <2>2, <2>3
<1>2. CASE RequestNext \/ WatchNext
  BY <1>2 DEF RequestNext, CloseStep, CloseReads, CloseReturnsEarly, CloseStopsWatch,
     CloseResumes, CloseUpdates, CloseConfirms, CloseAborts, CloseBegins, WatchNext,
     WatchHits, FeedFails, HandlerStep, HandlerReads, HandlerUpdates, HandlerFails,
     CancelLands, UserStopsWatch, CloseRow
<1>3. CASE ServerNext
  <2>1. PICK s \in Servers :
            \/ ServerStarts(s) \/ ResumeStep(s) \/ ResumeFails(s) \/ ServerStops(s)
            \/ ResetBegins(s) \/ ResetStep(s) \/ ResetFails(s) \/ SetBankroll(s)
    BY <1>3 DEF ServerNext
  <2>2. CASE ResumeLinks(s)
    BY <2>2 DEF ResumeLinks, LinkTo
  <2>3. CASE ResetTruncates(s)
    BY <2>3 DEF ResetTruncates
  <2> QED
    BY <2>1, <2>2, <2>3 DEF ServerStarts, ResumeStep, ResumeLists, ResumeAbandons,
       AbandonRow, ResumeEnds, ResumeStartsWatch, ResumeIsRefused, ResumeTakes,
       ResumeFails, ServerStops, ResetBegins, ResetStep, ResetEnds, ResetFails, SetBankroll
<1> QED
  BY <1>1, <1>2, <1>3 DEF Next

\* A close request keeps the watch it has read, has none, or reads its trade's.
LEMMA RequestsMove ==
    ASSUME IInv, Next, NEW c \in Requests
    PROVE  \/ closer'[c].watch = closer[c].watch /\ closer'[c].trade = closer[c].trade
           \/ closer'[c].watch = NoWatch
           \/ /\ closer[c].trade \in Trades /\ closer'[c].trade = closer[c].trade
              /\ closer'[c].watch = link[closer[c].trade]
<1> USE DEF IInv, TypeOK
<1>1. CASE RequestNext
  <2>1. PICK d \in Requests :
            \/ CloseStep(d) \/ CloseAborts(d)
            \/ \E t \in Trades, s \in Servers : CloseBegins(d, t, s)
    BY <1>1 DEF RequestNext
  <2>2. CASE CloseReads(d)
    <3>1. closer[d].trade \in Trades
      BY <2>2 DEF CloseReads, Referents, Inserted
    <3> QED
      BY <2>2, <3>1 DEF CloseReads
  <2>3. ASSUME NEW t \in Trades, NEW s \in Servers, CloseBegins(d, t, s)
        PROVE  \/ closer'[c] = closer[c] \/ closer'[c].watch = NoWatch
    BY <2>3 DEF CloseBegins
  <2>4. ASSUME NEW pc, AdvanceClose(d, pc)
        PROVE  closer'[c].watch = closer[c].watch /\ closer'[c].trade = closer[c].trade
    <3>1. CASE c = d
      <4>1. closer'[c] = CloserAt(c, pc)
        BY <2>4, <3>1 DEF AdvanceClose
      <4> QED
        BY <4>1 DEF CloserAt
    <3>2. CASE c # d
      BY <2>4, <3>2 DEF AdvanceClose
    <3> QED
      BY <3>1, <3>2
  <2>5. CASE CloseReturnsEarly(d) \/ CloseStopsWatch(d) \/ CloseResumes(d)
    BY <2>4, <2>5 DEF CloseReturnsEarly, CloseStopsWatch, CloseResumes
  <2>6. CASE CloseUpdates(d) \/ CloseConfirms(d) \/ CloseAborts(d)
    BY <2>4, <2>6 DEF CloseUpdates, CloseConfirms, CloseAborts
  <2> QED
    BY <2>1, <2>2, <2>3, <2>4, <2>5, <2>6 DEF CloseStep
<1>2. CASE TradeNext \/ WatchNext
  BY <1>2 DEF TradeNext, OpenStep, InsertRow, OpenStartsWatch, OpenIsRefused, OpenAbandons,
     OpenLinks, OpenConfirms, OpenAborts, OpenBegins, WatchNext, WatchHits, FeedFails,
     HandlerStep, HandlerReads, HandlerUpdates, HandlerFails, CancelLands, UserStopsWatch
<1>3. CASE ServerNext
  <2>1. PICK s \in Servers :
            \/ ServerStarts(s) \/ ResumeStep(s) \/ ResumeFails(s) \/ ServerStops(s)
            \/ ResetBegins(s) \/ ResetStep(s) \/ ResetFails(s) \/ SetBankroll(s)
    BY <1>3 DEF ServerNext
  <2>2. CASE ServerStops(s)
    BY <2>2 DEF ServerStops, CloserAt
  <2> QED
    BY <2>1, <2>2 DEF ServerStarts, ResumeStep, ResumeLists, ResumeLinks, ResumeAbandons,
       ResumeEnds, ResumeStartsWatch, ResumeIsRefused, ResumeTakes, ResumeFails,
       ResetBegins, ResetStep, ResetTruncates, ResetEnds, ResetFails, SetBankroll
<1> QED
  BY <1>1, <1>2, <1>3 DEF Next

\* A watch is about to be named because it was a step ago or has been started.
LEMMA LinkingMoves ==
    ASSUME IInv, Serving, Next, NEW t \in Trades, NEW w, NEW s \in Servers, Linking(t, w, s)'
    PROVE  \/ /\ opener'[t] = opener[t] /\ opener[t].pc = "linking"
              /\ opener[t].watch = w /\ opener[t].at = s
           \/ /\ resume'[s] = resume[s] /\ resume[s].pc = "linking"
              /\ resume[s].trade = t /\ resume[s].watch = w
           \/ w \in Watches /\ OpenStartsWatch(t, w) /\ opener[t].at = s
           \/ w \in Watches /\ ResumeStartsWatch(s, t, w)
<1> USE DEF IInv, TypeOK, serverVars
<1>1. CASE TradeNext
  <2>1. PICK u \in Trades : \/ OpenStep(u) \/ OpenAborts(u)
                            \/ \E r \in Servers : OpenBegins(u, r)
    BY <1>1 DEF TradeNext
  <2>2. CASE \E v \in Watches : OpenStartsWatch(u, v)
    <3>1. PICK v \in Watches : OpenStartsWatch(u, v)
      BY <2>2
    <3>2. UNCHANGED resume
      BY <3>1 DEF OpenStartsWatch
    <3>3. CASE t = u
      <4>1. opener'[t] = [pc |-> "linking", at |-> opener[t].at, watch |-> v]
        BY <3>1, <3>3 DEF OpenStartsWatch
      <4> QED
        BY <3>1, <3>2, <3>3, <4>1 DEF Linking
    <3>4. CASE t # u
      <4>1. opener'[t] = opener[t]
        BY <3>1, <3>4 DEF OpenStartsWatch
      <4> QED
        BY <3>2, <4>1 DEF Linking
    <3> QED
      BY <3>3, <3>4
  <2>3. ASSUME ~ \E v \in Watches : OpenStartsWatch(u, v), opener'[t].pc = "linking"
        PROVE  opener'[t] = opener[t]
    BY <2>1, <2>3 DEF OpenStep, InsertRow, OpenIsRefused, OpenAbandons,
       OpenLinks, OpenConfirms, OpenAborts, OpenBegins, AdvanceOpen, OpenerAt
  <2>4. UNCHANGED resume
    BY <2>1 DEF OpenStep, InsertRow, OpenStartsWatch, OpenIsRefused, OpenAbandons,
       OpenLinks, OpenConfirms, OpenAborts, OpenBegins
  <2> QED
    BY <2>2, <2>3, <2>4 DEF Linking
<1>2. CASE RequestNext \/ WatchNext
  <2>1. UNCHANGED <<opener, resume>>
    BY <1>2 DEF RequestNext, CloseStep, CloseReads, CloseReturnsEarly, CloseStopsWatch,
     CloseResumes, CloseUpdates, CloseConfirms, CloseAborts, CloseBegins, WatchNext,
     WatchHits, FeedFails, HandlerStep, HandlerReads, HandlerUpdates, HandlerFails,
     CancelLands, UserStopsWatch
  <2> QED
    BY <2>1 DEF Linking
<1>3. CASE ServerNext
  <2>1. PICK r \in Servers :
            \/ ServerStarts(r) \/ ResumeStep(r) \/ ResumeFails(r) \/ ServerStops(r)
            \/ ResetBegins(r) \/ ResetStep(r) \/ ResetFails(r) \/ SetBankroll(r)
    BY <1>3 DEF ServerNext
  <2>2. CASE ServerStops(r)
    BY <2>2 DEF ServerStops, OpenerAt, Linking, IdleResume, ResumeAt
  <2>3. ASSUME ~ServerStops(r) PROVE UNCHANGED opener
    BY <2>1, <2>3 DEF ServerStarts, ResumeStep, ResumeLists, ResumeLinks, ResumeAbandons,
       ResumeEnds, ResumeStartsWatch, ResumeIsRefused, ResumeTakes, ResumeFails,
       ResetBegins, ResetStep, ResetTruncates, ResetEnds, ResetFails, SetBankroll
  <2>4. CASE \E u \in Trades, v \in Watches : ResumeStartsWatch(r, u, v)
    <3>1. PICK u \in Trades, v \in Watches : ResumeStartsWatch(r, u, v)
      BY <2>4
    <3>2. UNCHANGED opener
      BY <3>1 DEF ResumeStartsWatch, ResumeTakes
    <3>3. CASE s = r
      <4>1. resume'[s].trade = u /\ resume'[s].watch = v
        BY <3>1, <3>3 DEF ResumeStartsWatch, ResumeTakes
      <4> QED
        BY <3>1, <3>2, <3>3, <4>1 DEF Linking
    <3>4. CASE s # r
      <4>1. resume'[s] = resume[s]
        BY <3>1, <3>4 DEF ResumeStartsWatch, ResumeTakes
      <4> QED
        BY <3>2, <4>1 DEF Linking
    <3> QED
      BY <3>3, <3>4
  <2>5. ASSUME ~ \E u \in Trades, v \in Watches : ResumeStartsWatch(r, u, v),
               resume'[s].pc = "linking"
        PROVE  resume'[s] = resume[s]
    BY <2>1, <2>5 DEF ServerStarts, ResumeStep, ResumeLists, ResumeLinks, ResumeAbandons,
       ResumeEnds, ResumeIsRefused, ResumeTakes, ResumeFails, ServerStops, ResumeNext,
       ResetBegins, ResetStep, ResetTruncates, ResetEnds, ResetFails, SetBankroll,
       IdleResume, ResumeAt
  <2> QED
    BY <2>2, <2>3, <2>4, <2>5 DEF Linking
<1> QED
  BY <1>1, <1>2, <1>3 DEF Next

\* Only stop cancels a watch, for a request or for the user.
LEMMA CancelsMove ==
    ASSUME IInv, Next, NEW w \in cancelling', w \notin cancelling
    PROVE  \/ "stop_watch" \in UserOps /\ UserStopsWatch(w)
           \/ \E c \in Requests : /\ CloseStopsWatch(c) /\ closer[c].watch = w
                                  /\ owner[w].at = closer[c].at
                                  /\ closer'[c].pc = "stopping"
<1> USE DEF IInv, TypeOK, watchVars
<1>1. CASE TradeNext
  BY <1>1 DEF TradeNext, OpenStep, InsertRow, OpenStartsWatch, StartWatch, OpenIsRefused,
     OpenAbandons, OpenLinks, OpenConfirms, OpenAborts, OpenBegins
<1>2. CASE RequestNext
  <2>1. PICK d \in Requests :
            \/ CloseStep(d) \/ CloseAborts(d)
            \/ \E t \in Trades, s \in Servers : CloseBegins(d, t, s)
    BY <1>2 DEF RequestNext
  <2>2. CloseStopsWatch(d)
    BY <2>1 DEF CloseStep, CloseReads, CloseReturnsEarly, CloseResumes, CloseUpdates,
       CloseConfirms, CloseAborts, CloseBegins
  <2>3. /\ closer[d].watch = w /\ owner[w].at = closer[d].at
        /\ AdvanceClose(d, "stopping")
    BY <2>2 DEF CloseStopsWatch
  <2>4. closer'[d].pc = "stopping"
    BY <2>3 DEF AdvanceClose, CloserAt
  <2> QED
    BY <2>2, <2>3, <2>4
<1>3. CASE WatchNext
  BY <1>3 DEF WatchNext, WatchHits, FeedFails, HandlerStep, HandlerReads, HandlerUpdates,
     HandlerFails, CancelLands, UserStopsWatch
<1>4. CASE ServerNext
  BY <1>4 DEF ServerNext, ServerStarts, ResumeStep, ResumeLists, ResumeLinks,
     ResumeAbandons, ResumeEnds, ResumeStartsWatch, StartWatch, ResumeIsRefused,
     ResumeTakes, ResumeFails, ServerStops, ResetBegins, ResetStep, ResetTruncates,
     ResetEnds, ResetFails, SetBankroll
<1> QED
  BY <1>1, <1>2, <1>3, <1>4 DEF Next

----------------------------------------------------------------------------
(* What is known of watches in every reachable state *)

LEMMA KnownInit == Init => Known
<1> SUFFICES ASSUME Init PROVE Known
  OBVIOUS
<1>1. IInv
  BY InvInit
<1>2. Ids
  BY LedgerAssumption DEF Init, Ids, Names
<1>3. Serving /\ Fresh
  BY LedgerAssumption
     DEF Init, Serving, Fresh, Linking, OpenPending, IdleResume, ResumeAt
<1> QED
  BY <1>1, <1>2, <1>3 DEF Known

LEMMA IdsNext ==
    ASSUME Known, Next
    PROVE  Ids'
<1>1. IInv /\ Ids /\ Serving /\ Fresh /\ TypeOK
  BY DEF Known, IInv
<1>2. ASSUME NEW w \in Watches, phase'[w] # "unused"
      PROVE  Inserted(owner[w].trade)' /\ owner'[w].at \in Servers
  <2>1. CASE phase[w] # "unused"
    <3>1. Inserted(owner[w].trade) /\ owner[w].at \in Servers
      BY <1>1, <2>1 DEF Ids
    <3>2. owner'[w] = owner[w]
      BY <1>1, <2>1, WatchesStay
    <3> QED
      BY <1>1, <3>1, <3>2, TradesStay DEF Inserted
  <2>2. CASE \E t \in Trades : OpenStartsWatch(t, w)
    <3>1. PICK t \in Trades : OpenStartsWatch(t, w)
      BY <2>2
    <3>2. owner'[w].trade = t /\ owner'[w].at = opener[t].at
      BY <1>1, <3>1 DEF OpenStartsWatch, StartWatch, TypeOK
    <3>3. Inserted(t) /\ opener[t].at \in Servers
      BY <1>1, <3>1 DEF OpenStartsWatch, Serving, OpenPending, Inserted
    <3> QED
      BY <1>1, <3>2, <3>3, TradesStay DEF Inserted
  <2>3. CASE \E t \in Trades, s \in Servers : ResumeStartsWatch(s, t, w)
    <3>1. PICK t \in Trades, s \in Servers : ResumeStartsWatch(s, t, w)
      BY <2>3
    <3>2. owner'[w].trade = t /\ owner'[w].at = s
      BY <1>1, <3>1 DEF ResumeStartsWatch, StartWatch, TypeOK
    <3>3. Inserted(t)
      BY <1>1, <3>1 DEF ResumeStartsWatch, ResumeTakes, Serving
    <3> QED
      BY <1>1, <3>2, <3>3, TradesStay DEF Inserted
  <2> QED
    BY <1>1, <1>2, <2>1, <2>2, <2>3, WatchesMove DEF Live
<1>3. ASSUME NEW w, NEW t, Names(w, t) PROVE Names(w, t)'
  BY <1>1, <1>3, WatchesStay DEF Names
<1>4. ASSUME NEW t \in Trades PROVE Names(link[t], t)'
  <2>1. CASE link'[t] = link[t] \/ link'[t] = NoWatch
    BY <1>1, <1>3, <2>1, LedgerAssumption DEF Ids, Names
  <2>2. ASSUME NEW w, NEW s \in Servers, Linking(t, w, s), link'[t] = w
        PROVE  Names(link[t], t)'
    <3>1. w \in MaybeWatch
      BY <1>1, <2>2 DEF Linking, TypeOK
    <3>2. phase[w] # "unused" /\ owner[w] = [trade |-> t, at |-> s]
      BY <1>1, <2>2, <3>1 DEF Fresh
    <3>3. Names(w, t)
      BY <3>2 DEF Names
    <3> QED
      BY <1>3, <2>2, <3>3 DEF Names
  <2>3. CASE OpenLinks(t) /\ link'[t] = opener[t].watch
    <3>1. opener[t].at \in Servers /\ Linking(t, opener[t].watch, opener[t].at)
      BY <1>1, <2>3 DEF OpenLinks, Serving, OpenPending, Linking
    <3> QED
      BY <2>2, <2>3, <3>1
  <2>4. ASSUME NEW s \in Servers, ResumeLinks(s), resume[s].trade = t,
               link'[t] = resume[s].watch
        PROVE  Names(link[t], t)'
    <3>1. Linking(t, resume[s].watch, s)
      BY <2>4 DEF ResumeLinks, Linking
    <3> QED
      BY <2>2, <2>4, <3>1
  <2> QED
    BY <1>1, <2>1, <2>3, <2>4, RowsMove
<1>5. ASSUME NEW c \in Requests PROVE Names(closer[c].watch, closer[c].trade)'
  <2>1. CASE closer'[c].watch = closer[c].watch /\ closer'[c].trade = closer[c].trade
    <3>1. Names(closer[c].watch, closer[c].trade)
      BY <1>1 DEF Ids
    <3> QED
      BY <1>3, <2>1, <3>1 DEF Names
  <2>2. CASE closer'[c].watch = NoWatch
    BY <2>2, LedgerAssumption DEF Names
  <2>3. CASE /\ closer[c].trade \in Trades /\ closer'[c].trade = closer[c].trade
             /\ closer'[c].watch = link[closer[c].trade]
    <3>1. Names(link[closer[c].trade], closer[c].trade)
      BY <1>1, <2>3 DEF Ids
    <3> QED
      BY <1>3, <2>3, <3>1 DEF Names
  <2> QED
    BY <1>1, <2>1, <2>2, <2>3, RequestsMove
<1> QED
  BY <1>2, <1>4, <1>5 DEF Ids, Inserted

LEMMA ServingNext ==
    ASSUME Known, Next
    PROVE  Serving'
<1> USE DEF OpenPending
<1>1. IInv /\ Ids /\ Serving /\ TypeOK
  BY DEF Known, IInv
<1>2. CASE TradeNext
  <2>1. PICK t \in Trades : \/ OpenStep(t) \/ OpenAborts(t)
                            \/ \E s \in Servers : OpenBegins(t, s)
    BY <1>2 DEF TradeNext
  <2>2. UNCHANGED <<server, resume>>
    BY <2>1 DEF OpenStep, InsertRow, OpenStartsWatch, OpenIsRefused, OpenAbandons,
       OpenLinks, OpenConfirms, OpenAborts, OpenBegins, serverVars
  <2>3. \A u \in Trades \ {t} : opener'[u] = opener[u]
    BY <1>1, <2>1 DEF TypeOK, OpenStep, InsertRow, OpenStartsWatch, OpenIsRefused,
       OpenAbandons, OpenLinks, OpenConfirms, OpenAborts, OpenBegins, AdvanceOpen
  <2>4. opener'[t].pc \in OpenPending
           => opener'[t].at \in Servers /\ server'[opener'[t].at] = "up"
    <3>1. ASSUME NEW s \in Servers, OpenBegins(t, s)
          PROVE  opener'[t].at \in Servers /\ server'[opener'[t].at] = "up"
      BY <1>1, <2>2, <3>1 DEF OpenBegins, TypeOK, Up
    <3>2. CASE OpenStep(t) \/ OpenAborts(t)
      <4>1. opener[t].pc \in OpenPending /\ opener'[t].at = opener[t].at
        BY <1>1, <3>2 DEF TypeOK, OpenStep, InsertRow, OpenStartsWatch, OpenIsRefused,
           OpenAbandons, OpenLinks, OpenConfirms, OpenAborts, AdvanceOpen, OpenerAt
      <4> QED
        BY <1>1, <2>2, <4>1 DEF Serving, Up
    <3> QED
      BY <2>1, <3>1, <3>2
  <2>5. \A u \in Trades : Inserted(u) => Inserted(u)'
    BY <1>1, TradesStay
  <2> QED
    BY <1>1, <2>2, <2>3, <2>4, <2>5 DEF Serving, Up
<1>3. CASE RequestNext \/ WatchNext
  <2>1. UNCHANGED <<opener, server, resume>>
    BY <1>3 DEF RequestNext, CloseStep, CloseReads, CloseReturnsEarly, CloseStopsWatch,
     CloseResumes, CloseUpdates, CloseConfirms, CloseAborts, CloseBegins, WatchNext,
     WatchHits, FeedFails, HandlerStep, HandlerReads, HandlerUpdates, HandlerFails,
     CancelLands, UserStopsWatch, serverVars
  <2> QED
    BY <1>1, <2>1 DEF Serving, Up, Inserted
<1>4. CASE ServerNext
  <2>1. PICK s \in Servers :
            \/ ServerStarts(s) \/ ResumeStep(s) \/ ResumeFails(s) \/ ServerStops(s)
            \/ ResetBegins(s) \/ ResetStep(s) \/ ResetFails(s) \/ SetBankroll(s)
    BY <1>4 DEF ServerNext
  <2>2. \A r \in Servers \ {s} : server'[r] = server[r] /\ resume'[r] = resume[r]
    BY <1>1, <2>1 DEF TypeOK, ServerStarts, ResumeStep, ResumeLists, ResumeLinks,
       ResumeAbandons, ResumeEnds, ResumeStartsWatch, ResumeIsRefused, ResumeTakes,
       ResumeNext, ResumeFails, ServerStops, ResetBegins, ResetStep, ResetTruncates,
       ResetEnds, ResetFails, SetBankroll
  <2>3. \A t \in Trades : opener'[t].pc \in OpenPending
            => /\ opener'[t] = opener[t]
               /\ opener[t].at = s => server'[s] = server[s]
    <3>1. CASE ServerStops(s)
      BY <1>1, <3>1 DEF TypeOK, ServerStops, OpenerAt
    <3>2. CASE ~ServerStops(s)
      <4>1. UNCHANGED opener
        BY <2>1, <3>2 DEF ServerStarts, ResumeStep, ResumeLists, ResumeLinks,
           ResumeAbandons, ResumeEnds, ResumeStartsWatch, ResumeIsRefused, ResumeTakes,
           ResumeFails, ResetBegins, ResetStep, ResetTruncates, ResetEnds, ResetFails,
           SetBankroll
      <4>2. server'[s] = server[s] \/ server[s] = "down" \/ resume[s].pc # "idle"
        BY <1>1, <2>1, <3>2 DEF TypeOK, ServerStarts, ResumeStep, ResumeLists,
           ResumeLinks, ResumeAbandons, ResumeEnds, ResumeStartsWatch, ResumeIsRefused,
           ResumeTakes, ResumeFails, ResetBegins, ResetStep, ResetTruncates, ResetEnds,
           ResetFails, SetBankroll
      <4>3. server'[s] = server[s] \/ ~Up(s)
        BY <1>1, <4>2 DEF Serving, IdleResume, ResumeAt, Up
      <4> QED
        BY <1>1, <4>1, <4>3 DEF Serving
    <3> QED
      BY <3>1, <3>2
  <2>4. \A u \in Trades : Inserted(u) => Inserted(u)'
    BY <1>1, TradesStay
  <2>5. \/ server'[s] = server[s] /\ resume'[s] = resume[s]
        \/ server'[s] \in {"down", "up"} /\ resume'[s] = IdleResume
        \/ /\ server'[s] = "resuming" /\ resume'[s].pc = "listing"
           /\ resume'[s].todo = {} /\ resume'[s].trade = NoTrade
        \/ /\ server'[s] = server[s] /\ resume[s].pc # "idle"
           /\ resume'[s].pc # "listing"
           /\ resume'[s].pc \notin {"linking", "abandoning"} => resume'[s].trade = NoTrade
           /\ \A t \in Trades : t \in resume'[s].todo \/ t = resume'[s].trade
                => t \in resume[s].todo \/ status[t] = "running"
    <3>1. CASE ServerStarts(s)
      BY <1>1, <3>1 DEF TypeOK, ServerStarts, ResumeAt
    <3>2. CASE ResumeEnds(s) \/ ResumeFails(s) \/ ServerStops(s)
      BY <1>1, <3>2 DEF TypeOK, ResumeEnds, ResumeFails, ServerStops
    <3>3. CASE ResumeLists(s) \/ ResumeLinks(s) \/ ResumeAbandons(s)
      BY <1>1, <3>3, LedgerAssumption
         DEF TypeOK, ResumeLists, ResumeLinks, ResumeAbandons, ResumeNext, ResumeAt
    <3>4. CASE \E t \in Trades : \/ \E w \in Watches : ResumeStartsWatch(s, t, w)
                                 \/ ResumeIsRefused(s, t)
      BY <1>1, <3>4 DEF TypeOK, ResumeStartsWatch, ResumeIsRefused, ResumeTakes
    <3> QED
      BY <2>1, <3>1, <3>2, <3>3, <3>4 DEF ResumeStep, ResetBegins, ResetStep,
         ResetTruncates, ResetEnds, ResetFails, SetBankroll
  <2>6. \A t \in Trades : status[t] = "running" => Inserted(t)
    BY <1>1 DEF IInv, Rows, Inserted
  <2>7. /\ server'[s] # "resuming" => resume'[s] = IdleResume
        /\ resume'[s].pc = "listing" => resume'[s].todo = {}
        /\ resume'[s].pc \notin {"linking", "abandoning"} => resume'[s].trade = NoTrade
        /\ \A t \in Trades : t \in resume'[s].todo \/ t = resume'[s].trade => Inserted(t)
    <3>1. CASE server'[s] = server[s] /\ resume'[s] = resume[s]
      BY <1>1, <3>1 DEF Serving
    <3>2. CASE server'[s] \in {"down", "up"} /\ resume'[s] = IdleResume
      BY <3>2, LedgerAssumption DEF IdleResume, ResumeAt
    <3>3. CASE /\ server'[s] = "resuming" /\ resume'[s].pc = "listing"
               /\ resume'[s].todo = {} /\ resume'[s].trade = NoTrade
      BY <3>3, LedgerAssumption
    <3>4. CASE /\ server'[s] = server[s] /\ resume[s].pc # "idle"
               /\ resume'[s].pc # "listing"
               /\ resume'[s].pc \notin {"linking", "abandoning"} => resume'[s].trade = NoTrade
               /\ \A t \in Trades : t \in resume'[s].todo \/ t = resume'[s].trade
                    => t \in resume[s].todo \/ status[t] = "running"
      <4>1. server[s] = "resuming"
        BY <1>1, <3>4 DEF Serving, IdleResume, ResumeAt
      <4> QED
        BY <1>1, <2>6, <3>4, <4>1 DEF Serving
    <3> QED
      BY <2>5, <3>1, <3>2, <3>3, <3>4
  <2>8. \A t \in Trades : opener'[t].pc \in OpenPending
            => opener'[t].at \in Servers /\ server'[opener'[t].at] = "up"
    BY <1>1, <2>2, <2>3 DEF Serving, Up
  <2>9. \A r \in Servers :
          /\ server'[r] # "resuming" => resume'[r] = IdleResume
          /\ resume'[r].pc = "listing" => resume'[r].todo = {}
          /\ resume'[r].pc \notin {"linking", "abandoning"} => resume'[r].trade = NoTrade
          /\ \A t \in Trades : t \in resume'[r].todo \/ t = resume'[r].trade => Inserted(t)'
    BY <1>1, <2>2, <2>4, <2>7 DEF Serving
  <2> QED
    BY <2>8, <2>9 DEF Serving, Up, IdleResume, ResumeAt
<1> QED
  BY <1>2, <1>3, <1>4 DEF Next

\* No watch is named by two coroutines, so who names it is done with it then.
LEMMA OneNames ==
    ASSUME Known, Next, NEW t \in Trades, NEW u \in Trades,
           NEW w \in Watches, NEW s \in Servers,
           Linking(t, w, s), Linking(t, w, s)', w # NoWatch, link[u] # w
    PROVE  link'[u] # w
<1>1. IInv /\ Serving /\ Fresh /\ TypeOK
  BY DEF Known, IInv
<1>2. owner[w] = [trade |-> t, at |-> s]
  BY <1>1 DEF Fresh, MaybeWatch
<1>3. opener[t].pc = "linking" /\ opener[t].at = s => resume[s].pc = "idle"
  BY <1>1 DEF Serving, OpenPending, Up, IdleResume, ResumeAt
<1>4. ASSUME OpenLinks(u), opener[u].watch = w PROVE FALSE
  <2>1. opener[u].at \in Servers /\ Linking(u, w, opener[u].at)
    BY <1>1, <1>4 DEF OpenLinks, Serving, OpenPending, Linking
  <2>2. owner[w] = [trade |-> u, at |-> opener[u].at]
    BY <1>1, <2>1 DEF Fresh, MaybeWatch
  <2>3. u = t /\ opener[u].at = s
    BY <1>2, <2>2
  <2>4. opener'[t].pc = "confirming" /\ UNCHANGED resume
    BY <1>1, <1>4, <2>3 DEF OpenLinks, AdvanceOpen, OpenerAt, TypeOK, serverVars
  <2> QED
    BY <1>3, <1>4, <2>3, <2>4 DEF OpenLinks, Linking
<1>5. ASSUME NEW r \in Servers, ResumeLinks(r), resume[r].trade = u, resume[r].watch = w
      PROVE  FALSE
  <2>1. Linking(u, w, r)
    BY <1>5 DEF ResumeLinks, Linking
  <2>2. owner[w] = [trade |-> u, at |-> r]
    BY <1>1, <2>1 DEF Fresh, MaybeWatch
  <2>3. u = t /\ r = s
    BY <1>2, <2>2
  <2>4. resume'[s].pc = "next" /\ UNCHANGED opener
    BY <1>1, <1>5, <2>3 DEF ResumeLinks, ResumeNext, ResumeAt, TypeOK
  <2> QED
    BY <1>3, <1>5, <2>3, <2>4 DEF ResumeLinks, Linking
<1> QED
  BY <1>1, <1>4, <1>5, RowsMove

LEMMA FreshNext ==
    ASSUME Known, Next
    PROVE  Fresh'
<1>1. IInv /\ Ids /\ Serving /\ Fresh /\ TypeOK
  BY DEF Known, IInv
<1> SUFFICES ASSUME NEW t \in Trades, NEW w \in MaybeWatch, NEW s \in Servers,
                    Linking(t, w, s)'
             PROVE  /\ w \in Watches /\ phase'[w] # "unused"
                    /\ owner'[w] = [trade |-> t, at |-> s] /\ Unseen(w)'
  BY DEF Fresh
<1>2. CASE Linking(t, w, s)
  <2>1. /\ w \in Watches /\ phase[w] # "unused" /\ owner[w] = [trade |-> t, at |-> s]
        /\ Unseen(w)
    BY <1>1, <1>2 DEF Fresh
  <2>2. phase'[w] # "unused" /\ owner'[w] = owner[w]
    BY <1>1, <2>1, WatchesStay
  <2>3. \A u \in Trades : link'[u] # w
    BY <1>2, <2>1, OneNames, LedgerAssumption DEF Unseen
  <2>4. ASSUME NEW c \in Requests PROVE closer'[c].watch # w
    BY <1>1, <2>1, RequestsMove, LedgerAssumption DEF Unseen
  <2>5. w \in cancelling' => "stop_watch" \in UserOps
    <3>1. ASSUME w \in cancelling', w \notin cancelling, "stop_watch" \notin UserOps
          PROVE  FALSE
      BY <1>1, <2>1, <3>1, CancelsMove DEF Unseen
    <3> QED
      BY <2>1, <3>1 DEF Unseen
  <2> QED
    BY <2>1, <2>2, <2>3, <2>4, <2>5 DEF Unseen
<1>3. ASSUME w \in Watches, StartWatch(w, t, s)
      PROVE  /\ phase'[w] # "unused" /\ owner'[w] = [trade |-> t, at |-> s]
             /\ Unseen(w)'
  <2>1. /\ phase[w] = "unused" /\ phase'[w] = "watching"
        /\ owner'[w] = [trade |-> t, at |-> s] /\ UNCHANGED cancelling
    BY <1>1, <1>3 DEF StartWatch, TypeOK
  <2>2. \A u \in Trades : link[u] # w
    BY <1>1, <1>3, <2>1 DEF Ids, Names
  <2>3. ASSUME NEW u \in Trades PROVE link'[u] # w
    <3>1. ASSUME OpenLinks(u), opener[u].watch = w PROVE FALSE
      <4>1. opener[u].at \in Servers /\ Linking(u, w, opener[u].at)
        BY <1>1, <3>1 DEF OpenLinks, Serving, OpenPending, Linking
      <4> QED
        BY <1>1, <2>1, <4>1 DEF Fresh
    <3>2. ASSUME NEW r \in Servers, ResumeLinks(r), resume[r].trade = u,
                 resume[r].watch = w
          PROVE  FALSE
      <4>1. Linking(u, w, r)
        BY <3>2 DEF ResumeLinks, Linking
      <4> QED
        BY <1>1, <2>1, <4>1 DEF Fresh
    <3> QED
      BY <1>1, <1>3, <2>2, <3>1, <3>2, RowsMove, LedgerAssumption
  <2>4. ASSUME NEW c \in Requests PROVE closer'[c].watch # w
    <3>1. closer[c].watch # w
      BY <1>1, <1>3, <2>1 DEF Ids, Names
    <3> QED
      BY <1>1, <1>3, <2>2, <3>1, RequestsMove, LedgerAssumption
  <2>5. w \notin cancelling'
    BY <1>1, <1>3, <2>1 DEF IInv, Watching, Live
  <2> QED
    BY <2>1, <2>3, <2>4, <2>5 DEF Unseen
<1>4. Linking(t, w, s) \/ (w \in Watches /\ StartWatch(w, t, s))
  BY <1>1, LinkingMoves DEF Linking, OpenStartsWatch, ResumeStartsWatch
<1> QED
  BY <1>2, <1>3, <1>4

LEMMA KnownNext ==
    ASSUME Known, [Next]_vars
    PROVE  Known'
<1>1. CASE UNCHANGED vars
  <2>1. IInv'
    BY InvNext DEF Known
  <2>2. Ids'
    BY <1>1 DEF vars, Known, Ids, Names, Inserted
  <2>3. Serving'
    BY <1>1 DEF vars, Known, Serving, Inserted, Up, IdleResume, ResumeAt
  <2>4. Fresh'
    BY <1>1 DEF vars, Known, Fresh, Linking, Unseen
  <2> QED
    BY <2>1, <2>2, <2>3, <2>4 DEF Known
<1>2. CASE Next
  BY <1>2, IdsNext, ServingNext, FreshNext, InvNext DEF Known
<1> QED
  BY <1>1, <1>2

\* Whatever fails, who holds the id of a watch holds one of its own trade, and a
\* watch whose id is not written yet is known to its starter only.
THEOREM LedgerKnowsItsWatches == Spec => []Known
BY KnownInit, KnownNext, PTL DEF Spec
----------------------------------------------------------------------------
(* One server process watches a trade once *)

Unwatched(t) == \A w \in Watches : ~Watched(t, w)

OneServer == \A r, s \in Servers : r = s

MayResume(s, t) ==
    server[s] = "down" \/ resume[s].pc = "listing" \/ t \in resume[s].todo

\* A trade gets a watch where it has none: after its insert, or from a server
\* that has stopped since, and with it all its watches.
Alone ==
    /\ OneWatchPerTrade
    /\ \A t \in Trades : opener[t].pc = "inserted" => Unwatched(t)
    /\ \A s \in Servers, t \in Trades : MayResume(s, t) => Unwatched(t)

LEMMA AloneInit == Init => Alone
BY DEF Init, Alone, MayResume, OneWatchPerTrade, Unwatched, Watched, Live

\* Where no watch is started for it, a trade gets none.
LEMMA StaysUnwatched ==
    ASSUME Known, Next, NEW t \in Trades, NEW w \in Watches, Watched(t, w)', ~Watched(t, w)
    PROVE  \/ OpenStartsWatch(t, w)
           \/ \E s \in Servers : ResumeStartsWatch(s, t, w)
<1>1. IInv /\ Ids /\ TypeOK
  BY DEF Known, IInv
<1>2. ASSUME NEW u \in Trades, StartWatch(w, u, opener[u].at) PROVE u = t
  BY <1>1, <1>2 DEF StartWatch, TypeOK, Watched
<1>3. ASSUME NEW u \in Trades, NEW s \in Servers, StartWatch(w, u, s) PROVE u = t
  BY <1>1, <1>3 DEF StartWatch, TypeOK, Watched
<1> QED
  BY <1>1, <1>2, <1>3, WatchesMove DEF Watched, OpenStartsWatch, ResumeStartsWatch

\* A trade comes to be inserted by its INSERT.
LEMMA InsertedMoves ==
    ASSUME IInv, Next, NEW t \in Trades, opener'[t].pc = "inserted"
    PROVE  opener[t].pc = "inserted" \/ ~Inserted(t)
<1> USE DEF IInv, TypeOK
<1>1. CASE TradeNext
  <2>1. PICK u \in Trades : \/ OpenStep(u) \/ OpenAborts(u)
                            \/ \E s \in Servers : OpenBegins(u, s)
    BY <1>1 DEF TradeNext
  <2>2. CASE \E v \in Watches : OpenStartsWatch(u, v)
    BY <2>2 DEF OpenStartsWatch
  <2>3. CASE \E s \in Servers : OpenBegins(u, s)
    BY <2>3 DEF OpenBegins
  <2>4. CASE InsertRow(u)
    BY <2>4 DEF InsertRow, AdvanceOpen, OpenerAt, Inserted
  <2>5. CASE \/ OpenIsRefused(u) \/ OpenAbandons(u) \/ OpenLinks(u) \/ OpenConfirms(u)
             \/ OpenAborts(u)
    BY <2>5 DEF OpenIsRefused, OpenAbandons, OpenLinks, OpenConfirms, OpenAborts,
       AdvanceOpen, OpenerAt
  <2> QED
    BY <2>1, <2>2, <2>3, <2>4, <2>5 DEF OpenStep
<1>2. CASE RequestNext \/ WatchNext
  BY <1>2 DEF RequestNext, CloseStep, CloseReads, CloseReturnsEarly, CloseStopsWatch,
     CloseResumes, CloseUpdates, CloseConfirms, CloseAborts, CloseBegins, WatchNext,
     WatchHits, FeedFails, HandlerStep, HandlerReads, HandlerUpdates, HandlerFails,
     CancelLands, UserStopsWatch
<1>3. CASE ServerNext
  <2>1. PICK s \in Servers :
            \/ ServerStarts(s) \/ ResumeStep(s) \/ ResumeFails(s) \/ ServerStops(s)
            \/ ResetBegins(s) \/ ResetStep(s) \/ ResetFails(s) \/ SetBankroll(s)
    BY <1>3 DEF ServerNext
  <2>2. CASE ServerStops(s)
    BY <2>2 DEF ServerStops, OpenerAt
  <2> QED
    BY <2>1, <2>2 DEF ServerStarts, ResumeStep, ResumeLists, ResumeLinks, ResumeAbandons,
       ResumeEnds, ResumeStartsWatch, ResumeIsRefused, ResumeTakes, ResumeFails,
       ResetBegins, ResetStep, ResetTruncates, ResetEnds, ResetFails, SetBankroll
<1> QED
  BY <1>1, <1>2, <1>3 DEF Next

\* A server comes to resume a trade by being stopped, and is through with it once
\* it has started a watch.
LEMMA MayResumeMoves ==
    ASSUME IInv, Serving, Next, NEW s \in Servers, NEW t \in Trades, ~ServerStops(s),
           MayResume(s, t)'
    PROVE  MayResume(s, t) /\ ~ \E w \in Watches : ResumeStartsWatch(s, t, w)
<1> USE DEF IInv, TypeOK, MayResume
<1>1. CASE TradeNext \/ RequestNext \/ WatchNext
  <2>1. UNCHANGED <<server, resume>>
    BY <1>1 DEF TradeNext, OpenStep, InsertRow, OpenStartsWatch, OpenIsRefused,
       OpenAbandons, OpenLinks, OpenConfirms, OpenAborts, OpenBegins, RequestNext,
       CloseStep, CloseReads, CloseReturnsEarly, CloseStopsWatch, CloseResumes,
       CloseUpdates, CloseConfirms, CloseAborts, CloseBegins, WatchNext, WatchHits,
       FeedFails, HandlerStep, HandlerReads, HandlerUpdates, HandlerFails, CancelLands,
       UserStopsWatch, serverVars
  <2> QED
    BY <2>1 DEF ResumeStartsWatch, ResumeTakes
<1>2. CASE ServerNext
  <2>1. PICK r \in Servers :
            \/ ServerStarts(r) \/ ResumeStep(r) \/ ResumeFails(r) \/ ServerStops(r)
            \/ ResetBegins(r) \/ ResetStep(r) \/ ResetFails(r) \/ SetBankroll(r)
    BY <1>2 DEF ServerNext
  <2>2. \A q \in Servers \ {r} : server'[q] = server[q] /\ resume'[q] = resume[q]
    BY <2>1 DEF ServerStarts, ResumeStep, ResumeLists, ResumeLinks,
       ResumeAbandons, ResumeEnds, ResumeStartsWatch, ResumeIsRefused, ResumeTakes,
       ResumeNext, ResumeFails, ServerStops, ResetBegins, ResetStep, ResetTruncates,
       ResetEnds, ResetFails, SetBankroll
  <2>3. MayResume(r, t)' /\ ~ServerStops(r) => MayResume(r, t)
    BY <2>1 DEF ServerStarts, ResumeStep, ResumeLists, ResumeLinks, ResumeAt,
       ResumeAbandons, ResumeEnds, ResumeStartsWatch, ResumeIsRefused, ResumeTakes,
       ResumeNext, ResumeFails, ResetBegins, ResetStep, ResetTruncates, IdleResume,
       ResetEnds, ResetFails, SetBankroll
  <2>4. ASSUME NEW w \in Watches, ResumeStartsWatch(s, t, w) PROVE FALSE
    <3>1. server'[s] = server[s] /\ server[s] = "resuming"
      BY <2>4 DEF ResumeStartsWatch, ResumeTakes, Serving, IdleResume, ResumeAt
    <3>2. resume'[s].pc = "linking" /\ t \notin resume'[s].todo
      BY <2>4 DEF ResumeStartsWatch, ResumeTakes
    <3> QED
      BY <3>1, <3>2
  <2> QED
    BY <2>2, <2>3, <2>4
<1> QED
  BY <1>1, <1>2 DEF Next

LEMMA AloneNext ==
    ASSUME OneServer, Known, Alone, [Next]_vars
    PROVE  Alone'
<1>1. IInv /\ Ids /\ Serving /\ TypeOK
  BY DEF Known, IInv
<1>2. CASE UNCHANGED vars
  BY <1>2 DEF vars, Alone, MayResume, OneWatchPerTrade, Unwatched, Watched
<1>3. ASSUME Next, NEW t \in Trades, NEW v \in Watches, NEW w \in Watches,
             Watched(t, v)', Watched(t, w)'
      PROVE  v = w
  <2>1. ASSUME NEW x \in Watches, \/ OpenStartsWatch(t, x)
                                  \/ \E s \in Servers : ResumeStartsWatch(s, t, x)
        PROVE  Unwatched(t)
    BY <2>1 DEF Alone, MayResume, OpenStartsWatch, ResumeStartsWatch, ResumeTakes
  <2>2. ASSUME NEW x \in Watches, NEW y \in Watches, NEW z \in Trades, NEW s, NEW r,
               NEW u \in Trades, StartWatch(x, z, s), StartWatch(y, u, r)
        PROVE  x = y
    BY <1>1, <2>2 DEF StartWatch, TypeOK
  <2>3. CASE Watched(t, v) /\ Watched(t, w)
    BY <2>3 DEF Alone, OneWatchPerTrade
  <2>4. CASE ~Watched(t, v)
    <3>1. Unwatched(t)
      BY <1>3, <2>1, <2>4, StaysUnwatched
    <3>2. ~Watched(t, w)
      BY <3>1 DEF Unwatched
    <3> QED
      BY <1>3, <2>2, <2>4, <3>2, StaysUnwatched DEF OpenStartsWatch, ResumeStartsWatch
  <2>5. CASE ~Watched(t, w)
    <3>1. Unwatched(t)
      BY <1>3, <2>1, <2>5, StaysUnwatched
    <3>2. ~Watched(t, v)
      BY <3>1 DEF Unwatched
    <3> QED
      BY <1>3, <2>2, <2>5, <3>2, StaysUnwatched DEF OpenStartsWatch, ResumeStartsWatch
  <2> QED
    BY <2>3, <2>4, <2>5
<1>4. ASSUME Next, NEW t \in Trades, opener'[t].pc = "inserted"
      PROVE  Unwatched(t)'
  <2>1. opener[t].pc = "inserted" \/ ~Inserted(t)
    BY <1>1, <1>3, <1>4, InsertedMoves
  <2>2. Unwatched(t)
    BY <1>1, <2>1 DEF Alone, Unwatched, Watched, Ids, Live
  <2>3. ASSUME NEW w \in Watches, OpenStartsWatch(t, w) PROVE FALSE
    BY <1>1, <1>4, <2>3 DEF OpenStartsWatch, TypeOK
  <2>4. ASSUME NEW w \in Watches, NEW s \in Servers, ResumeStartsWatch(s, t, w)
        PROVE  FALSE
    <3>1. opener[t].pc = "inserted" /\ resume[s].pc = "next"
      BY <1>4, <2>4 DEF ResumeStartsWatch, ResumeTakes
    <3>2. opener[t].at \in Servers /\ Up(opener[t].at)
      BY <1>1, <3>1 DEF Serving, OpenPending
    <3>3. Up(s)
      BY <3>2 DEF OneServer
    <3> QED
      BY <1>1, <3>1, <3>3 DEF Serving, Up, IdleResume, ResumeAt
  <2> QED
    BY <1>4, <2>2, <2>3, <2>4, StaysUnwatched DEF Unwatched
<1>5. ASSUME Next, NEW s \in Servers, NEW t \in Trades, ~ServerStops(s),
             MayResume(s, t)'
      PROVE  Unwatched(t)'
  <2>1. MayResume(s, t) /\ ~ \E w \in Watches : ResumeStartsWatch(s, t, w)
    BY <1>1, <1>5, MayResumeMoves
  <2>2. Unwatched(t)
    BY <2>1 DEF Alone, MayResume
  <2>3. ASSUME NEW w \in Watches, OpenStartsWatch(t, w) PROVE FALSE
    <3>1. opener[t].at \in Servers /\ Up(opener[t].at)
      BY <1>1, <2>3 DEF OpenStartsWatch, Serving, OpenPending
    <3>2. Up(s)
      BY <3>1 DEF OneServer
    <3> QED
      BY <1>1, <2>1, <3>2 DEF MayResume, Serving, Up, IdleResume, ResumeAt
  <2> QED
    BY <1>5, <2>1, <2>2, <2>3, StaysUnwatched DEF Unwatched, OneServer
<1>6. ASSUME NEW s \in Servers, NEW t \in Trades, ServerStops(s)
      PROVE  Unwatched(t)'
  <2>1. ASSUME NEW w \in Watches, phase'[w] \in Live PROVE FALSE
    <3>1. phase[w] \in Live /\ owner[w].at # s
      BY <1>1, <1>6, <2>1 DEF ServerStops, Live
    <3>2. owner[w].at \in Servers
      BY <1>1, <3>1 DEF Ids, Live
    <3> QED
      BY <3>1, <3>2 DEF OneServer
  <2> QED
    BY <2>1 DEF Unwatched, Watched
<1>7. CASE Next
  <2>1. OneWatchPerTrade'
    BY <1>3, <1>7 DEF OneWatchPerTrade, Watched
  <2>2. \A t \in Trades : opener'[t].pc = "inserted" => Unwatched(t)'
    BY <1>4, <1>7
  <2>3. \A s \in Servers, t \in Trades : MayResume(s, t)' => Unwatched(t)'
    BY <1>5, <1>6, <1>7
  <2> QED
    BY <2>1, <2>2, <2>3 DEF Alone, MayResume, Unwatched
<1> QED
  BY <1>2, <1>7

\* With one server a trade is never watched twice, whatever fails, whoever stops
\* watches or wipes the table, and however often the server is restarted.
THEOREM LedgerWatchesOnce ==
    ASSUME OneServer
    PROVE  Spec => []OneWatchPerTrade
<1>1. Init => Alone
  BY AloneInit
<1>2. Known /\ Alone /\ [Next]_vars => Alone'
  BY AloneNext
<1>3. Alone => OneWatchPerTrade
  BY DEF Alone
<1> QED
  BY <1>1, <1>2, <1>3, LedgerKnowsItsWatches, PTL DEF Spec
----------------------------------------------------------------------------
(* While nothing fails, a running trade is watched *)

\* No database call fails, no feed dies, no request is aborted, and nobody calls
\* stop_watch.  Servers may still stop at any time.
Quiet == MaxFaults = 0 /\ "stop_watch" \notin UserOps

\* The watch whose id is about to be written is still at work.
HandOver ==
    \A t \in Trades, w \in Watches, s \in Servers :
        Linking(t, w, s) /\ status[t] = "running" => Watched(t, w)

ToldToStop(c) == closer[c].pc \in {"stopping", "updating"}

\* A cancelled watch leaves its trade to a request in the same process.
Closing ==
    \A w \in cancelling :
        status[owner[w].trade] = "running" =>
            \E c \in Requests : /\ ToldToStop(c) /\ closer[c].trade = owner[w].trade
                                /\ closer[c].at = owner[w].at

Owes(s, t) == MayResume(s, t) \/ resume[s].trade = t

\* A running trade is being opened, watched, being closed, or there is a server
\* that will resume it before it serves.
Tended ==
    \A t \in Trades :
        status[t] = "running" =>
            \/ opener[t].pc \in {"inserted", "abandoning", "linking"}
            \/ Watched(t, link[t]) \/ BeingClosed(t)
            \/ \E s \in Servers : Owes(s, t)

LEMMA NoFault == ASSUME Quiet, TypeOK PROVE ~Fault
BY DEF Quiet, TypeOK, Fault

\* A row comes to be running by its INSERT.
LEMMA RunningMoves ==
    ASSUME IInv, Next, NEW t \in Trades, status'[t] = "running", status[t] # "running"
    PROVE  InsertRow(t)
<1> USE DEF IInv, TypeOK, rowVars
<1>1. ASSUME NEW u \in Trades, NEW why, CloseRow(u, why) PROVE FALSE
  BY <1>1 DEF CloseRow
<1>2. ASSUME NEW u \in Trades, AbandonRow(u) PROVE FALSE
  BY <1>2 DEF AbandonRow
<1>3. CASE TradeNext
  <2>1. PICK u \in Trades : \/ OpenStep(u) \/ OpenAborts(u)
                            \/ \E s \in Servers : OpenBegins(u, s)
    BY <1>3 DEF TradeNext
  <2>2. CASE InsertRow(u)
    BY <2>2 DEF InsertRow
  <2>3. ASSUME ~InsertRow(u) PROVE UNCHANGED status
    BY <1>2, <2>1, <2>3 DEF OpenStep, OpenStartsWatch, OpenIsRefused, OpenAbandons,
       OpenLinks, LinkTo, OpenConfirms, OpenAborts, OpenBegins
  <2> QED
    BY <2>2, <2>3
<1>4. CASE RequestNext
  <2>1. PICK d \in Requests :
            \/ CloseStep(d) \/ CloseAborts(d)
            \/ \E r \in Trades, s \in Servers : CloseBegins(d, r, s)
    BY <1>4 DEF RequestNext
  <2>2. CASE CloseUpdates(d)
    <3>1. closer[d].trade \in Trades
      BY <2>2 DEF CloseUpdates, Referents, Inserted
    <3> QED
      BY <1>1, <2>2, <3>1 DEF CloseUpdates
  <2>3. ASSUME ~CloseUpdates(d) PROVE UNCHANGED status
    BY <2>1, <2>3 DEF CloseStep, CloseReads, CloseReturnsEarly, CloseStopsWatch,
       CloseResumes, CloseConfirms, CloseAborts, CloseBegins
  <2> QED
    BY <2>2, <2>3
<1>5. CASE WatchNext
  <2>1. PICK w \in Watches : \/ WatchHits(w) \/ FeedFails(w) \/ HandlerStep(w)
                             \/ HandlerFails(w) \/ CancelLands(w) \/ UserStopsWatch(w)
    BY <1>5 DEF WatchNext
  <2>2. \/ UNCHANGED status
        \/ phase[w] = "updating" /\ CloseRow(owner[w].trade, "hit")
    BY <2>1 DEF WatchHits, FeedFails, HandlerStep, HandlerReads, HandlerUpdates,
       HandlerFails, CancelLands, UserStopsWatch
  <2>3. phase[w] = "updating" => owner[w].trade \in Trades
    BY DEF Referents
  <2> QED
    BY <1>1, <2>2, <2>3
<1>6. CASE ServerNext
  <2>1. PICK s \in Servers :
            \/ ServerStarts(s) \/ ResumeStep(s) \/ ResumeFails(s) \/ ServerStops(s)
            \/ ResetBegins(s) \/ ResetStep(s) \/ ResetFails(s) \/ SetBankroll(s)
    BY <1>6 DEF ServerNext
  <2>2. CASE ResumeAbandons(s)
    <3>1. resume[s].trade \in Trades
      BY <2>2 DEF ResumeAbandons, Referents
    <3> QED
      BY <1>2, <2>2, <3>1 DEF ResumeAbandons
  <2>3. CASE ResetTruncates(s)
    BY <2>3 DEF ResetTruncates
  <2>4. ASSUME ~ResumeAbandons(s), ~ResetTruncates(s) PROVE UNCHANGED status
    BY <2>1, <2>4 DEF ServerStarts, ResumeStep, ResumeLists, ResumeLinks, LinkTo,
       ResumeEnds, ResumeStartsWatch, ResumeIsRefused, ResumeTakes, ResumeFails,
       ServerStops, ResetBegins, ResetStep, ResetEnds, ResetFails, SetBankroll
  <2> QED
    BY <2>2, <2>3, <2>4
<1> QED
  BY <1>3, <1>4, <1>5, <1>6 DEF Next

\* While nothing fails a watch ends with its trade, when cancelled, or with its
\* server.
LEMMA WatchEnds ==
    ASSUME Quiet, IInv, Next, NEW w \in Watches, phase[w] \in Live, phase'[w] \notin Live
    PROVE  \/ w \in cancelling /\ UNCHANGED <<closer, opener>>
           \/ status'[owner[w].trade] # "running"
           \/ owner[w].at \in Servers /\ ServerStops(owner[w].at)
<1> USE DEF IInv, TypeOK, Live, watchVars
<1>0. ~Fault
  BY NoFault
<1>1. \A t \in Trades, s \in Anywhere : ~StartWatch(w, t, s)
  BY DEF StartWatch
<1>2. ASSUME NEW v \in Watches, v # w, NEW t \in Trades, NEW s \in Anywhere,
             StartWatch(v, t, s)
      PROVE  FALSE
  BY <1>2 DEF StartWatch
<1>3. CASE TradeNext \/ RequestNext
  <2>1. \/ UNCHANGED phase
        \/ \E t \in Trades, v \in Watches : StartWatch(v, t, opener[t].at)
    BY <1>3 DEF TradeNext, OpenStep, InsertRow, OpenStartsWatch, OpenIsRefused,
       OpenAbandons, OpenLinks, OpenConfirms, OpenAborts, OpenBegins, RequestNext,
       CloseStep, CloseReads, CloseReturnsEarly, CloseStopsWatch, CloseResumes,
       CloseUpdates, CloseConfirms, CloseAborts, CloseBegins
  <2> QED
    BY <1>1, <1>2, <2>1
<1>4. CASE WatchNext
  <2>1. PICK v \in Watches : \/ WatchHits(v) \/ FeedFails(v) \/ HandlerStep(v)
                             \/ HandlerFails(v) \/ CancelLands(v) \/ UserStopsWatch(v)
    BY <1>4 DEF WatchNext
  <2>2. v = w
    BY <2>1 DEF WatchHits, FeedFails, HandlerStep, HandlerReads, HandlerUpdates,
       HandlerFails, CancelLands, UserStopsWatch
  <2>3. CASE HandlerReads(w)
    BY <2>3 DEF HandlerReads, rowVars
  <2>4. CASE HandlerUpdates(w)
    <3>1. owner[w].trade \in Trades
      BY DEF Referents
    <3> QED
      BY <2>4, <3>1 DEF HandlerUpdates, CloseRow
  <2>5. CASE CancelLands(w)
    BY <2>5 DEF CancelLands
  <2>6. CASE WatchHits(w) \/ UserStopsWatch(w)
    BY <2>6 DEF WatchHits, UserStopsWatch
  <2>7. ~FeedFails(w) /\ ~HandlerFails(w)
    BY <1>0 DEF FeedFails, HandlerFails
  <2> QED
    BY <2>1, <2>2, <2>3, <2>4, <2>5, <2>6, <2>7 DEF HandlerStep
<1>5. CASE ServerNext
  <2>1. PICK s \in Servers :
            \/ ServerStarts(s) \/ ResumeStep(s) \/ ResumeFails(s) \/ ServerStops(s)
            \/ ResetBegins(s) \/ ResetStep(s) \/ ResetFails(s) \/ SetBankroll(s)
    BY <1>5 DEF ServerNext
  <2>2. CASE ServerStops(s)
    <3>1. owner[w].at = s
      BY <2>2 DEF ServerStops
    <3> QED
      BY <2>2, <3>1
  <2>3. \/ UNCHANGED phase \/ ServerStops(s)
        \/ \E t \in Trades, v \in Watches : StartWatch(v, t, s)
    <3>1. CASE ResumeStep(s)
      <4>1. CASE ResumeLists(s) \/ ResumeLinks(s) \/ ResumeAbandons(s) \/ ResumeEnds(s)
        BY <4>1 DEF ResumeLists, ResumeLinks, ResumeAbandons, ResumeEnds
      <4>2. ASSUME NEW t \in Trades, ResumeIsRefused(s, t) PROVE UNCHANGED phase
        BY <4>2 DEF ResumeIsRefused
      <4>3. ASSUME NEW t \in Trades, NEW v \in Watches, ResumeStartsWatch(s, t, v)
            PROVE  StartWatch(v, t, s)
        BY <4>3 DEF ResumeStartsWatch
      <4> QED
        BY <3>1, <4>1, <4>2, <4>3 DEF ResumeStep
    <3>2. CASE ServerStarts(s) \/ ResumeFails(s)
      BY <3>2 DEF ServerStarts, ResumeFails
    <3>3. CASE ResetBegins(s) \/ ResetStep(s) \/ ResetFails(s) \/ SetBankroll(s)
      BY <3>3 DEF ResetBegins, ResetStep, ResetTruncates, ResetEnds, ResetFails, SetBankroll
    <3> QED
      BY <2>1, <3>1, <3>2, <3>3
  <2>4. ASSUME NEW t \in Trades, NEW v \in Watches, StartWatch(v, t, s) PROVE phase'[w] = phase[w]
    <3>1. s \in Anywhere
      BY DEF Anywhere
    <3>2. v # w
      BY <1>1, <2>4, <3>1
    <3> QED
      BY <1>2, <2>4, <3>1, <3>2
  <2> QED
    BY <2>2, <2>3, <2>4
<1> QED
  BY <1>3, <1>4, <1>5 DEF Next

\* A request that has told a watch to stop goes on to decide the trade.
LEMMA CloserGoesOn ==
    ASSUME Quiet, IInv, Next, NEW c \in Requests, ToldToStop(c)
    PROVE  \/ /\ ToldToStop(c)' /\ closer'[c].trade = closer[c].trade
              /\ closer'[c].at = closer[c].at
           \/ status'[closer[c].trade] # "running"
           \/ closer[c].at \in Servers /\ ServerStops(closer[c].at)
<1> USE DEF IInv, TypeOK, ToldToStop
<1>0. ~Fault
  BY NoFault
<1>1. CASE RequestNext
  <2>1. PICK d \in Requests :
            \/ CloseStep(d) \/ CloseAborts(d)
            \/ \E t \in Trades, s \in Servers : CloseBegins(d, t, s)
    BY <1>1 DEF RequestNext
  <2>2. CASE d # c
    <3>1. closer'[c] = closer[c]
      BY <2>1, <2>2 DEF CloseStep, CloseReads, CloseReturnsEarly, CloseStopsWatch,
         CloseResumes, CloseUpdates, CloseConfirms, CloseAborts, CloseBegins, AdvanceClose
    <3> QED
      BY <3>1
  <2>3. CASE d = c
    <3>1. CASE CloseResumes(c)
      <4>1. closer'[c] = CloserAt(c, "updating")
        BY <3>1 DEF CloseResumes, AdvanceClose
      <4> QED
        BY <4>1 DEF CloserAt
    <3>2. CASE CloseUpdates(c)
      <4>1. closer[c].trade \in Trades
        BY <3>2 DEF CloseUpdates, Referents, Inserted
      <4> QED
        BY <3>2, <4>1 DEF CloseUpdates, CloseRow
    <3>3. CloseResumes(c) \/ CloseUpdates(c)
      BY <1>0, <2>1, <2>3 DEF CloseStep, CloseReads, CloseReturnsEarly, CloseStopsWatch,
         CloseConfirms, CloseAborts, CloseBegins
    <3> QED
      BY <3>1, <3>2, <3>3
  <2> QED
    BY <2>2, <2>3
<1>2. CASE TradeNext \/ WatchNext
  <2>1. UNCHANGED closer
    BY <1>2 DEF TradeNext, OpenStep, InsertRow, OpenStartsWatch, OpenIsRefused,
       OpenAbandons, OpenLinks, OpenConfirms, OpenAborts, OpenBegins, WatchNext,
       WatchHits, FeedFails, HandlerStep, HandlerReads, HandlerUpdates, HandlerFails,
       CancelLands, UserStopsWatch
  <2> QED
    BY <2>1
<1>3. CASE ServerNext
  <2>1. PICK s \in Servers :
            \/ ServerStarts(s) \/ ResumeStep(s) \/ ResumeFails(s) \/ ServerStops(s)
            \/ ResetBegins(s) \/ ResetStep(s) \/ ResetFails(s) \/ SetBankroll(s)
    BY <1>3 DEF ServerNext
  <2>2. CASE ServerStops(s)
    <3>1. closer'[c] = closer[c] \/ closer[c].at = s
      BY <2>2 DEF ServerStops
    <3> QED
      BY <2>2, <3>1
  <2>3. ASSUME ~ServerStops(s) PROVE UNCHANGED closer
    BY <2>1, <2>3 DEF ServerStarts, ResumeStep, ResumeLists, ResumeLinks, ResumeAbandons,
       ResumeEnds, ResumeStartsWatch, ResumeIsRefused, ResumeTakes, ResumeFails,
       ResetBegins, ResetStep, ResetTruncates, ResetEnds, ResetFails, SetBankroll
  <2> QED
    BY <2>2, <2>3
<1> QED
  BY <1>1, <1>2, <1>3 DEF Next

\* A server owes a trade its watch until it has written the watch's id.
LEMMA OwesMoves ==
    ASSUME Quiet, IInv, Serving, Next, NEW s \in Servers, NEW t \in Trades, Owes(s, t),
           status[t] = "running"
    PROVE  \/ Owes(s, t)' \/ status'[t] # "running"
           \/ ResumeLinks(s) /\ resume[s].trade = t
<1> USE DEF IInv, TypeOK, Owes, MayResume
<1>0. ~Fault
  BY NoFault
<1>1. CASE TradeNext \/ RequestNext \/ WatchNext
  <2>1. UNCHANGED <<server, resume>>
    BY <1>1 DEF TradeNext, OpenStep, InsertRow, OpenStartsWatch, OpenIsRefused,
       OpenAbandons, OpenLinks, OpenConfirms, OpenAborts, OpenBegins, RequestNext,
       CloseStep, CloseReads, CloseReturnsEarly, CloseStopsWatch, CloseResumes,
       CloseUpdates, CloseConfirms, CloseAborts, CloseBegins, WatchNext, WatchHits,
       FeedFails, HandlerStep, HandlerReads, HandlerUpdates, HandlerFails, CancelLands,
       UserStopsWatch, serverVars
  <2> QED
    BY <2>1
<1>2. CASE ServerNext
  <2>1. PICK r \in Servers :
            \/ ServerStarts(r) \/ ResumeStep(r) \/ ResumeFails(r) \/ ServerStops(r)
            \/ ResetBegins(r) \/ ResetStep(r) \/ ResetFails(r) \/ SetBankroll(r)
    BY <1>2 DEF ServerNext
  <2>2. \A q \in Servers \ {r} : server'[q] = server[q] /\ resume'[q] = resume[q]
    BY <2>1 DEF ServerStarts, ResumeStep, ResumeLists, ResumeLinks,
       ResumeAbandons, ResumeEnds, ResumeStartsWatch, ResumeIsRefused, ResumeTakes,
       ResumeNext, ResumeFails, ServerStops, ResetBegins, ResetStep, ResetTruncates,
       ResetEnds, ResetFails, SetBankroll
  <2>3. CASE r = s
    <3>1. CASE ServerStops(s) \/ ServerStarts(s)
      BY <3>1 DEF ServerStops, ServerStarts, ResumeAt
    <3>2. CASE ResumeLists(s)
      BY <3>2 DEF ResumeLists, ResumeAt
    <3>3. CASE ResumeLinks(s)
      <4>1. server'[s] # "down" => t \in resume[s].todo \/ resume[s].trade = t
        BY <3>3 DEF ResumeLinks
      <4>2. t \in resume[s].todo => t \in resume'[s].todo
        BY <3>3 DEF ResumeLinks, ResumeNext, ResumeAt
      <4>3. server'[s] = server[s]
        BY <3>3 DEF ResumeLinks
      <4> QED
        BY <3>3, <4>1, <4>2, <4>3
    <3>4. CASE ResumeAbandons(s)
      <4>1. CASE resume[s].trade = t
        BY <3>4, <4>1 DEF ResumeAbandons, AbandonRow
      <4>2. t \in resume[s].todo => t \in resume'[s].todo
        BY <3>4 DEF ResumeAbandons, ResumeNext, ResumeAt
      <4>3. server'[s] = server[s] /\ resume[s].pc # "listing"
        BY <3>4 DEF ResumeAbandons
      <4> QED
        BY <4>1, <4>2, <4>3
    <3>5. CASE ResumeEnds(s)
      <4>1. server[s] = "resuming" /\ resume[s].trade = NoTrade
        BY <3>5 DEF ResumeEnds, Serving, IdleResume, ResumeAt
      <4> QED
        BY <3>5, <4>1, LedgerAssumption DEF ResumeEnds
    <3>6. ASSUME NEW u \in Trades, \/ \E w \in Watches : ResumeStartsWatch(s, u, w)
                                   \/ ResumeIsRefused(s, u)
          PROVE  Owes(s, t)'
      <4>1. /\ resume'[s].todo = resume[s].todo \ {u} /\ resume'[s].trade = u
            /\ resume[s].pc = "next" /\ server' = server
        BY <3>6 DEF ResumeStartsWatch, ResumeIsRefused, ResumeTakes
      <4>2. resume[s].trade # t
        <5>1. resume[s].trade = NoTrade
          BY <4>1 DEF Serving
        <5> QED
          BY <5>1, LedgerAssumption
      <4> QED
        BY <4>1, <4>2
    <3>7. ~ResumeFails(s)
      BY <1>0 DEF ResumeFails
    <3> QED
      BY <2>1, <2>3, <3>1, <3>2, <3>3, <3>4, <3>5, <3>6, <3>7 DEF ResumeStep, ResetBegins,
         ResetStep, ResetTruncates, ResetEnds, ResetFails, SetBankroll
  <2> QED
    BY <2>2, <2>3
<1> QED
  BY <1>1, <1>2 DEF Next

\* An opened trade that has no watch yet gets one, or a server owes it one.
LEMMA OpeningMoves ==
    ASSUME Quiet, IInv, Next, NEW t \in Trades,
           opener[t].pc \in {"inserted", "abandoning", "linking"}
    PROVE  \/ opener'[t].pc \in {"inserted", "abandoning", "linking"}
           \/ OpenLinks(t)
           \/ status'[t] # "running"
           \/ \E s \in Servers : ServerStops(s)
<1> USE DEF IInv, TypeOK
<1>0. ~Fault
  BY NoFault
<1>1. CASE TradeNext
  <2>1. PICK u \in Trades : \/ OpenStep(u) \/ OpenAborts(u)
                            \/ \E s \in Servers : OpenBegins(u, s)
    BY <1>1 DEF TradeNext
  <2>2. CASE u # t
    <3>1. opener'[t] = opener[t]
      BY <2>1, <2>2 DEF OpenStep, InsertRow, OpenStartsWatch, OpenIsRefused, OpenAbandons,
         OpenLinks, OpenConfirms, OpenAborts, OpenBegins, AdvanceOpen
    <3> QED
      BY <3>1
  <2>3. CASE u = t
    <3>1. ASSUME NEW w \in Watches, OpenStartsWatch(t, w) PROVE opener'[t].pc = "linking"
      BY <3>1 DEF OpenStartsWatch
    <3>2. CASE OpenIsRefused(t)
      BY <3>2 DEF OpenIsRefused, AdvanceOpen, OpenerAt
    <3>3. CASE OpenAbandons(t)
      BY <3>3 DEF OpenAbandons, AbandonRow
    <3> QED
      BY <1>0, <2>1, <2>3, <3>1, <3>2, <3>3 DEF OpenStep, InsertRow, OpenConfirms,
         OpenAborts, OpenBegins
  <2> QED
    BY <2>2, <2>3
<1>2. CASE RequestNext \/ WatchNext
  <2>1. UNCHANGED opener
    BY <1>2 DEF RequestNext, CloseStep, CloseReads, CloseReturnsEarly, CloseStopsWatch,
       CloseResumes, CloseUpdates, CloseConfirms, CloseAborts, CloseBegins, WatchNext,
       WatchHits, FeedFails, HandlerStep, HandlerReads, HandlerUpdates, HandlerFails,
       CancelLands, UserStopsWatch
  <2> QED
    BY <2>1
<1>3. CASE ServerNext
  <2>1. (\E s \in Servers : ServerStops(s)) \/ UNCHANGED opener
    BY <1>3 DEF ServerNext, ServerStarts, ResumeStep, ResumeLists, ResumeLinks,
       ResumeAbandons, ResumeEnds, ResumeStartsWatch, ResumeIsRefused, ResumeTakes,
       ResumeFails, ResetBegins, ResetStep, ResetTruncates, ResetEnds, ResetFails,
       SetBankroll
  <2> QED
    BY <2>1
<1> QED
  BY <1>1, <1>2, <1>3 DEF Next

LEMMA HandOverNext ==
    ASSUME Quiet, Known, HandOver, Next
    PROVE  HandOver'
<1>1. IInv /\ Ids /\ Serving /\ Fresh /\ TypeOK
  BY DEF Known, IInv
<1> SUFFICES ASSUME NEW t \in Trades, NEW w \in Watches, NEW s \in Servers,
                    Linking(t, w, s)', status'[t] = "running"
             PROVE  Watched(t, w)'
  BY DEF HandOver
<1>2. CASE StartWatch(w, t, s)
  BY <1>1, <1>2 DEF StartWatch, TypeOK, Watched, Live
<1>3. CASE Linking(t, w, s)
  <2>1. phase[w] # "unused" /\ owner[w] = [trade |-> t, at |-> s] /\ w \notin cancelling
    BY <1>1, <1>3 DEF Fresh, MaybeWatch, Unseen, Quiet
  <2>2. status[t] = "running"
    BY <1>1, <2>1, RunningMoves DEF Ids, Inserted, InsertRow
  <2>3. phase[w] \in Live
    BY <1>3, <2>2 DEF HandOver, Watched
  <2>4. owner'[w] = owner[w]
    BY <1>1, <2>1, WatchesStay
  <2>5. ~ServerStops(s)
    <3>1. ASSUME ServerStops(s) PROVE FALSE
      <4>1. resume'[s].pc = "idle"
        BY <1>1, <3>1 DEF ServerStops, TypeOK, IdleResume, ResumeAt
      <4>2. ~(opener'[t].pc = "linking" /\ opener'[t].at = s)
        BY <1>1, <3>1 DEF ServerStops, TypeOK, OpenerAt, OpenPending
      <4> QED
        BY <4>1, <4>2 DEF Linking
    <3> QED
      BY <3>1
  <2>6. phase'[w] \in Live
    BY <1>1, <2>1, <2>3, <2>5, WatchEnds
  <2> QED
    BY <2>1, <2>4, <2>6 DEF Watched
<1> QED
  BY <1>1, <1>2, <1>3, LinkingMoves DEF Linking, OpenStartsWatch, ResumeStartsWatch

LEMMA ClosingNext ==
    ASSUME Quiet, Known, Closing, Next
    PROVE  Closing'
<1>1. IInv /\ Ids /\ TypeOK /\ Watching
  BY DEF Known, IInv
<1> SUFFICES ASSUME NEW w \in cancelling', status'[owner'[w].trade] = "running"
             PROVE  \E c \in Requests : /\ ToldToStop(c)'
                                        /\ closer'[c].trade = owner'[w].trade
                                        /\ closer'[c].at = owner'[w].at
  BY DEF Closing, ToldToStop
<1>2. CASE w \in cancelling
  <2>1. w \in Watches /\ phase[w] \in Live
    BY <1>1, <1>2 DEF TypeOK, Watching
  <2>2. owner'[w] = owner[w] /\ Inserted(owner[w].trade)
    BY <1>1, <2>1, WatchesStay DEF Ids, Live
  <2>3. status[owner[w].trade] = "running"
    BY <1>1, <2>2, RunningMoves DEF Inserted, InsertRow
  <2>4. PICK c \in Requests : /\ ToldToStop(c) /\ closer[c].trade = owner[w].trade
                              /\ closer[c].at = owner[w].at
    BY <1>2, <2>3 DEF Closing
  <2>5. ~ServerStops(owner[w].at)
    BY <2>1, <2>2 DEF ServerStops
  <2> QED
    BY <1>1, <2>2, <2>4, <2>5, CloserGoesOn
<1>3. CASE w \notin cancelling
  <2>1. PICK c \in Requests : /\ CloseStopsWatch(c) /\ closer[c].watch = w
                              /\ owner[w].at = closer[c].at /\ closer'[c].pc = "stopping"
    BY <1>1, <1>3, CancelsMove DEF Quiet
  <2>2. w \in Watches /\ UNCHANGED owner
    BY <1>1, <1>3, <2>1 DEF CloseStopsWatch
  <2>3. owner[w].trade = closer[c].trade
    BY <1>1, <2>1, <2>2 DEF Ids, Names
  <2>4. closer'[c].trade = closer[c].trade /\ closer'[c].at = closer[c].at
    BY <1>1, <2>1 DEF CloseStopsWatch, AdvanceClose, CloserAt, TypeOK
  <2> QED
    BY <2>1, <2>2, <2>3, <2>4 DEF ToldToStop
<1> QED
  BY <1>2, <1>3

LEMMA TendedNext ==
    ASSUME Quiet, Known, HandOver, Closing, Tended, Next
    PROVE  Tended'
<1>1. IInv /\ Ids /\ Serving /\ Fresh /\ TypeOK
  BY DEF Known, IInv
<1> SUFFICES ASSUME NEW t \in Trades, status'[t] = "running"
             PROVE  \/ opener'[t].pc \in {"inserted", "abandoning", "linking"}
                    \/ Watched(t, link[t])' \/ BeingClosed(t)'
                    \/ \E s \in Servers : Owes(s, t)'
  BY DEF Tended
<1>2. ASSUME NEW s \in Servers, ServerStops(s) PROVE Owes(s, t)'
  BY <1>1, <1>2 DEF ServerStops, TypeOK, Owes, MayResume
<1>3. CASE InsertRow(t)
  BY <1>1, <1>3 DEF InsertRow, AdvanceOpen, OpenerAt, TypeOK
<1>4. CASE status[t] = "running" /\ \A s \in Servers : ~ServerStops(s)
  <2>1. ASSUME NEW w \in Watches, NEW s \in Servers, Linking(t, w, s), link'[t] = w,
               UNCHANGED <<phase, owner>>
        PROVE  Watched(t, link[t])'
    BY <1>4, <2>1 DEF HandOver, Watched
  <2>2. CASE OpenLinks(t)
    <3>1. opener[t].at \in Servers /\ Linking(t, opener[t].watch, opener[t].at)
      BY <1>1, <2>2 DEF OpenLinks, Serving, OpenPending, Linking
    <3>2. opener[t].watch \in Watches
      BY <1>1, <3>1 DEF Fresh, TypeOK
    <3>3. link'[t] = opener[t].watch /\ UNCHANGED <<phase, owner>>
      BY <1>1, <1>4, <2>2 DEF OpenLinks, LinkTo, TypeOK, watchVars
    <3> QED
      BY <2>1, <3>1, <3>2, <3>3
  <2>3. ASSUME NEW s \in Servers, ResumeLinks(s), resume[s].trade = t
        PROVE  Watched(t, link[t])'
    <3>1. Linking(t, resume[s].watch, s)
      BY <2>3 DEF ResumeLinks, Linking
    <3>2. resume[s].watch \in Watches
      BY <1>1, <3>1 DEF Fresh, TypeOK
    <3>3. link'[t] = resume[s].watch /\ UNCHANGED <<phase, owner>>
      BY <1>1, <1>4, <2>3 DEF ResumeLinks, LinkTo, TypeOK, watchVars
    <3> QED
      BY <2>1, <3>1, <3>2, <3>3
  <2>4. CASE opener[t].pc \in {"inserted", "abandoning", "linking"}
    BY <1>1, <1>4, <2>2, <2>4, OpeningMoves
  <2>5. CASE BeingClosed(t)
    <3>1. PICK c \in Requests : ToldToStop(c) /\ closer[c].trade = t
      BY <2>5 DEF BeingClosed, ToldToStop
    <3>2. ToldToStop(c)' /\ closer'[c].trade = t
      BY <1>1, <1>4, <3>1, CloserGoesOn
    <3> QED
      BY <3>2 DEF BeingClosed, ToldToStop
  <2>6. ASSUME NEW s \in Servers, Owes(s, t)
        PROVE  Owes(s, t)' \/ Watched(t, link[t])'
    BY <1>1, <1>4, <2>3, <2>6, OwesMoves
  <2>7. CASE Watched(t, link[t])
    <3> DEFINE w == link[t]
    <3>1. w \in Watches /\ phase[w] \in Live /\ owner[w].trade = t
      BY <2>7 DEF Watched
    <3>2. owner'[w] = owner[w]
      BY <1>1, <3>1, WatchesStay DEF Live
    <3>3. CASE link'[t] # w
      BY <1>1, <2>2, <2>3, <3>3, RowsMove
    <3>4. CASE link'[t] = w /\ phase'[w] \in Live
      BY <3>1, <3>2, <3>4 DEF Watched
    <3>5. CASE phase'[w] \notin Live
      <4>1. w \in cancelling /\ UNCHANGED <<closer, opener>>
        BY <1>1, <1>4, <3>1, <3>5, WatchEnds
      <4>2. PICK c \in Requests : ToldToStop(c) /\ closer[c].trade = t
        BY <1>4, <3>1, <4>1 DEF Closing
      <4> QED
        BY <4>1, <4>2 DEF BeingClosed, ToldToStop
    <3> QED
      BY <3>3, <3>4, <3>5
  <2> QED
    BY <1>4, <2>4, <2>5, <2>6, <2>7 DEF Tended
<1> QED
  BY <1>1, <1>2, <1>3, <1>4, RunningMoves

QuietInv == HandOver /\ Closing /\ Tended

LEMMA QuietInit == Init => QuietInv
BY DEF Init, QuietInv, HandOver, Linking, Closing, Tended, IdleResume, ResumeAt

LEMMA QuietNext ==
    ASSUME Quiet, Known, QuietInv, [Next]_vars
    PROVE  QuietInv'
<1>1. CASE UNCHANGED vars
  BY <1>1 DEF vars, QuietInv, HandOver, Linking, Watched, Closing, ToldToStop, Tended,
     BeingClosed, Owes, MayResume
<1>2. CASE Next
  BY <1>2, HandOverNext, ClosingNext, TendedNext DEF QuietInv
<1> QED
  BY <1>1, <1>2

\* While nothing fails and nobody calls stop_watch, a running trade is watched by
\* the watch its row names, or a request is deciding it: with any number of
\* requests and servers, and however often they are stopped and started again.
THEOREM LedgerWatchesRunning ==
    ASSUME Quiet
    PROVE  Spec => []RunningIsWatched
<1>1. Init => QuietInv
  BY QuietInit
<1>2. Known /\ QuietInv /\ [Next]_vars => QuietInv'
  BY QuietNext
<1>3. Known /\ QuietInv => RunningIsWatched
  <2>1. ASSUME Known, QuietInv, NEW t \in Trades, status[t] = "running", Settled(t)
        PROVE  Watched(t, link[t]) \/ BeingClosed(t)
    <3>1. ASSUME NEW s \in Servers, Owes(s, t) PROVE FALSE
      BY <2>1, <3>1, LedgerAssumption
         DEF Settled, Up, Known, Serving, Owes, MayResume, IdleResume, ResumeAt
    <3> QED
      BY <2>1, <3>1 DEF QuietInv, Tended, Settled
  <2> QED
    BY <2>1 DEF RunningIsWatched
<1> QED
  BY <1>1, <1>2, <1>3, LedgerKnowsItsWatches, PTL DEF Spec
=============================================================================
