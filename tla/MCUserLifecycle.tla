-------------------------- MODULE MCUserLifecycle --------------------------
(* Small instances of UserLifecycle. *)
EXTENDS UserLifecycle, TLC

Fresh == [status |-> "active", used |-> 0, limit |-> 1, expire |-> None, hold |-> None,
          timeout |-> None, online |-> "never", plan |-> None, changed |-> "recent"]
OnHold == [Fresh EXCEPT !.status = "on_hold", !.hold = 1, !.timeout = "future"]
Unlimited == [Fresh EXCEPT !.limit = None, !.expire = "future"]
APlan == [limit |-> 1, expire |-> "future", rem |-> FALSE, either |-> TRUE]
BothPlan == [limit |-> 2, expire |-> None, rem |-> TRUE, either |-> FALSE]

Body == [status |-> None, limit |-> None, expire |-> None, hold |-> None, timeout |-> None, replan |-> FALSE, plan |-> None]

AllNewcomers == {[Fresh EXCEPT !.expire = "future", !.plan = APlan], OnHold}
AllBodies ==
  {[Body EXCEPT !.status = "on_hold", !.hold = 1, !.expire = "unlimited", !.timeout = "future"],
   [Body EXCEPT !.status = "disabled"],
   [Body EXCEPT !.status = "active"],
   [Body EXCEPT !.limit = 2],
   [Body EXCEPT !.limit = 1, !.expire = "past"],
   [Body EXCEPT !.expire = "future", !.limit = 0],
   [Body EXCEPT !.replan = TRUE, !.plan = BothPlan],
   [Body EXCEPT !.replan = TRUE]}

PoisonNewcomers == {Fresh, [Unlimited EXCEPT !.plan = APlan]}
NoBodies == {}
HoldNewcomers == {OnHold}
HoldBodies == {[Body EXCEPT !.status = "on_hold", !.hold = 1]}
PlanNewcomers == {[Fresh EXCEPT !.plan = APlan]}
DisableBodies == {[Body EXCEPT !.status = "disabled"]}
PastBodies == {[Body EXCEPT !.expire = "past"]}
=============================================================================
