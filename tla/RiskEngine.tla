----------------------------- MODULE RiskEngine -----------------------------
(***************************************************************************)
(* The decision chain of application/risk: which limits of a policy a      *)
(* trade intent breaks, and the status that follows from their severities. *)
(* Shares and losses are integer percents, amounts integers: the           *)
(* comparisons of the code, which are made in Decimal, are exact here.     *)
(***************************************************************************)
EXTENDS Integers

CONSTANT Null          \* an optional field of an intent that was not given

Severity == {"warn", "deny"}
Status == {"ok", "warn", "deny"}

\* What the payload and then the domain object accept.
PolicyPayloadAccepts(p) == \A field \in DOMAIN p : /\ p[field].value > 0
                                                  /\ p[field].severity \in Severity

ValidPolicy(p) == /\ PolicyPayloadAccepts(p)
                  /\ p.max_position_pct.value <= 100
                  /\ p.max_daily_loss_pct.value <= 100
                  /\ p.max_leverage.value >= 1

PayloadAccepts(i) ==
    /\ i.size > 0
    /\ i.leverage >= 1
    /\ i.recent_losses >= 0
    /\ i.today_pnl_pct # Null => i.today_pnl_pct \in -100..100

DomainAccepts(i) ==
    /\ PayloadAccepts(i)
    /\ i.current_balance # Null => i.current_balance >= 0

-----------------------------------------------------------------------------
Breach(handler, limit) == [handler |-> handler, severity |-> limit.severity]

RiskPolicyBreach(i, p) ==
    IF i.leverage > p.max_leverage.value
    THEN {Breach("RiskPolicy", p.max_leverage)} ELSE {}

ExposureBreach(i, p) ==
    IF /\ i.current_balance # Null
       /\ i.current_balance > 0
       /\ 100 * i.size > p.max_position_pct.value * i.current_balance
    THEN {Breach("Exposure", p.max_position_pct)} ELSE {}

LiquidityBreachSwapped(i, p) ==        \* Mutant of LiquidityBreach
    IF /\ i.current_balance # Null
       /\ i.current_balance - i.size > p.min_balance_buffer.value
    THEN {Breach("Liquidity", p.min_balance_buffer)} ELSE {}

LiquidityBreach(i, p) ==
    IF /\ i.current_balance # Null
       /\ i.current_balance - i.size < p.min_balance_buffer.value
    THEN {Breach("Liquidity", p.min_balance_buffer)} ELSE {}

DailyLossBreach(i, p) ==
    IF /\ i.today_pnl_pct # Null
       /\ i.today_pnl_pct <= -p.max_daily_loss_pct.value
    THEN {Breach("DailyLoss", p.max_daily_loss_pct)} ELSE {}

CooldownBreach(i, p) ==
    IF i.recent_losses >= p.cooldown_after_n_losses.value
    THEN {Breach("Cooldown", p.cooldown_after_n_losses)} ELSE {}

KillSwitchBreachWarning(engaged) ==    \* Mutant of KillSwitchBreach
    IF engaged THEN {[handler |-> "KillSwitch", severity |-> "warn"]} ELSE {}

KillSwitchBreach(engaged) ==
    IF engaged THEN {[handler |-> "KillSwitch", severity |-> "deny"]} ELSE {}

\* default_handler_chain: every handler runs, whatever the others found.
Violations(i, p, engaged) ==
    UNION {RiskPolicyBreach(i, p), ExposureBreach(i, p), LiquidityBreach(i, p),
           DailyLossBreach(i, p), CooldownBreach(i, p), KillSwitchBreach(engaged)}

Aggregate(violations) ==
    IF \E v \in violations : v.severity = "deny" THEN "deny"
    ELSE IF violations # {} THEN "warn" ELSE "ok"

Decision(i, p, engaged) == Aggregate(Violations(i, p, engaged))

-----------------------------------------------------------------------------
\* j asks for at least as much as i on an account that is no better off. A
\* balance of zero is left out: the exposure handler skips it, and then only
\* the liquidity handler, with a severity of its own, has a say.
Riskier(j, i) ==
    /\ j.size >= i.size
    /\ j.leverage >= i.leverage
    /\ j.recent_losses >= i.recent_losses
    /\ \/ j.current_balance = i.current_balance
       \/ /\ Null \notin {i.current_balance, j.current_balance}
          /\ 0 < j.current_balance /\ j.current_balance <= i.current_balance
    /\ \/ j.today_pnl_pct = i.today_pnl_pct
       \/ /\ Null \notin {i.today_pnl_pct, j.today_pnl_pct}
          /\ j.today_pnl_pct <= i.today_pnl_pct

Stricter(a, b) == \/ a = "deny"
                  \/ b = "ok"
                  \/ a = b
=============================================================================
