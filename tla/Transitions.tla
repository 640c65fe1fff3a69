------------------------------ MODULE Transitions ------------------------------
(***************************************************************************)
(* The request state machine of app/services/transitions.py: which status  *)
(* may follow which for each request type, for both kinds of tenant, and    *)
(* which role may move a request to a status.  Everything here is constant. *)
(* A table is the set of its edges <<from, to>>.                            *)
(***************************************************************************)

RequestTypes ==
  {"KITCHEN_TO_WAREHOUSE", "WAREHOUSE_TO_ADMIN_PO", "BRANCH_TO_ADMIN",
   "ADMIN_TO_SUPERADMIN_PLAN", "KITCHEN_TO_ADMIN"}

Statuses ==
  {"PENDING", "APPROVED", "PARTIALLY_APPROVED", "REJECTED",
   "FORWARDED_TO_KITCHEN", "IN_PRODUCTION", "PRODUCED", "ALLOCATED",
   "DISPATCHED", "REPORTED", "RESOLVED", "RECEIVED", "APPLIED", "CONFIRMED"}

ApprovalStatuses == {"APPROVED", "PARTIALLY_APPROVED"}

Edges(froms, tos) == froms \X tos

ALLOWED_TRANSITIONS ==
  [ KITCHEN_TO_WAREHOUSE |->
      Edges({"PENDING"}, ApprovalStatuses)
        \cup Edges(ApprovalStatuses, {"DISPATCHED"})
        \cup Edges({"DISPATCHED"}, {"RECEIVED"}),
    WAREHOUSE_TO_ADMIN_PO |->
      Edges({"PENDING"}, ApprovalStatuses)
        \cup Edges(ApprovalStatuses, {"DISPATCHED"})
        \cup Edges({"DISPATCHED"}, {"RECEIVED", "REPORTED"})
        \cup Edges({"REPORTED"}, {"DISPATCHED", "RESOLVED"})
        \cup Edges({"RESOLVED"}, {"RECEIVED"}),
    BRANCH_TO_ADMIN |->
      Edges({"PENDING"}, ApprovalStatuses \cup {"REJECTED"})
        \cup Edges(ApprovalStatuses, {"FORWARDED_TO_KITCHEN"})
        \cup Edges({"FORWARDED_TO_KITCHEN"}, {"IN_PRODUCTION"})
        \cup Edges({"IN_PRODUCTION"}, {"PRODUCED"})
        \cup Edges({"PRODUCED"}, {"DISPATCHED"})
        \cup Edges({"DISPATCHED"}, {"RECEIVED"}),
    ADMIN_TO_SUPERADMIN_PLAN |->
      Edges({"PENDING"}, ApprovalStatuses \cup {"REJECTED"})
        \cup Edges(ApprovalStatuses, {"APPLIED"})
        \cup Edges({"APPLIED"}, {"CONFIRMED"}),
    \* Allocation, shipping and delivery of a kitchen batch have their own
    \* endpoints (module DeliveryFanout); only the refusal is generic.
    KITCHEN_TO_ADMIN |-> Edges({"PENDING"}, {"REJECTED"}) ]

\* A tenant without a central kitchen: no production leg.
NO_KITCHEN_TRANSITIONS ==
  Edges({"PENDING"}, ApprovalStatuses \cup {"REJECTED"})
    \cup Edges(ApprovalStatuses, {"DISPATCHED"})
    \cup Edges({"DISPATCHED"}, {"RECEIVED"})

\* Every line is a resale product: the kitchen may ship without producing.
RESALE_ONLY_TRANSITIONS ==
  ALLOWED_TRANSITIONS["BRANCH_TO_ADMIN"]
    \cup Edges({"FORWARDED_TO_KITCHEN"}, {"DISPATCHED"})

TransitionsFor(type, hasCentralKitchen, resaleOnly) ==
  IF type = "BRANCH_TO_ADMIN" /\ ~hasCentralKitchen
  THEN NO_KITCHEN_TRANSITIONS
  ELSE IF type = "BRANCH_TO_ADMIN" /\ resaleOnly
       THEN RESALE_ONLY_TRANSITIONS
       ELSE ALLOWED_TRANSITIONS[type]

\* validate_transition
ValidTransition(type, from, to, hasCentralKitchen, resaleOnly) ==
  <<from, to>> \in TransitionsFor(type, hasCentralKitchen, resaleOnly)

Roles ==
  {"ADMIN", "SUPER_ADMIN", "WAREHOUSE_MANAGER", "KITCHEN_MANAGER",
   "BRANCH_MANAGER"}

\* Pairs <<role, to_status>> per type.
TRANSITION_ROLES ==
  [ KITCHEN_TO_WAREHOUSE |->
      Edges({"WAREHOUSE_MANAGER"}, ApprovalStatuses \cup {"DISPATCHED"})
        \cup Edges({"KITCHEN_MANAGER"}, {"RECEIVED"}),
    WAREHOUSE_TO_ADMIN_PO |->
      Edges({"ADMIN"}, ApprovalStatuses \cup {"DISPATCHED", "RESOLVED"})
        \cup Edges({"WAREHOUSE_MANAGER"}, {"REPORTED", "RECEIVED"}),
    BRANCH_TO_ADMIN |->
      Edges({"ADMIN"},
            ApprovalStatuses \cup {"REJECTED", "FORWARDED_TO_KITCHEN"})
        \cup Edges({"KITCHEN_MANAGER"},
                   {"IN_PRODUCTION", "PRODUCED", "DISPATCHED"})
        \cup Edges({"BRANCH_MANAGER"}, {"RECEIVED"}),
    ADMIN_TO_SUPERADMIN_PLAN |->
      Edges({"SUPER_ADMIN"}, ApprovalStatuses \cup {"REJECTED", "APPLIED"})
        \cup Edges({"ADMIN"}, {"CONFIRMED"}),
    KITCHEN_TO_ADMIN |-> Edges({"ADMIN"}, {"REJECTED"}) ]

\* Overrides for a tenant without a kitchen: the warehouse fulfils the branch.
NO_KITCHEN_ROLES ==
  Edges({"WAREHOUSE_MANAGER"},
        ApprovalStatuses \cup {"REJECTED", "DISPATCHED"})

\* roles_allowed_to_transition: an overridden status ignores the base table.
MayTransition(role, type, to, hasCentralKitchen) ==
  IF /\ type = "BRANCH_TO_ADMIN"
     /\ ~hasCentralKitchen
     /\ \E other \in Roles : <<other, to>> \in NO_KITCHEN_ROLES
  THEN <<role, to>> \in NO_KITCHEN_ROLES
  ELSE <<role, to>> \in TRANSITION_ROLES[type]

================================================================================
