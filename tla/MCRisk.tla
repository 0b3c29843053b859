------------------------------- MODULE MCRisk -------------------------------
(***************************************************************************)
(* Two setters and one asker over three policies: a strict one, one that   *)
(* warns, and one a payload would not pass. The intents sit on both sides  *)
(* of every limit.                                                         *)
(***************************************************************************)
EXTENDS RiskGate, TLC

CONSTANTS strict, mild, broken

Lim(v, sev) == [value |-> v, severity |-> sev]

MCLimits ==
    strict :> [max_leverage |-> Lim(2, "deny"), max_position_pct |-> Lim(50, "warn"),
               max_daily_loss_pct |-> Lim(5, "deny"), cooldown_after_n_losses |-> Lim(2, "warn"),
               min_balance_buffer |-> Lim(3, "deny")]
    @@ mild :> [max_leverage |-> Lim(3, "warn"), max_position_pct |-> Lim(100, "warn"),
               max_daily_loss_pct |-> Lim(10, "warn"), cooldown_after_n_losses |-> Lim(3, "warn"),
               min_balance_buffer |-> Lim(1, "warn")]
    @@ broken :> [max_leverage |-> Lim(0, "warn"), max_position_pct |-> Lim(120, "warn"),
               max_daily_loss_pct |-> Lim(5, "warn"), cooldown_after_n_losses |-> Lim(1, "warn"),
               min_balance_buffer |-> Lim(1, "warn")]

Intent(size, balance, leverage, losses, pnl) ==
    [size |-> size, current_balance |-> balance, leverage |-> leverage,
     recent_losses |-> losses, today_pnl_pct |-> pnl]

\* One that passes, one a payload refuses and one the domain object refuses,
MCIntents == {Intent(3, 10, 1, 0, 0), Intent(0, 10, 1, 0, Null), Intent(3, -1, 1, 0, Null)}

\* and those it is compared with: each is worse in one respect or in several.
MCCompared == {Intent(3, 10, 1, 0, 0), Intent(6, 10, 1, 0, 0), Intent(8, 10, 1, 0, 0),
               Intent(3, 5, 1, 0, 0), Intent(3, 10, 3, 0, 0), Intent(3, 10, 1, 2, 0),
               Intent(3, 10, 1, 0, -5), Intent(9, 9, 4, 3, -10)}
=============================================================================
