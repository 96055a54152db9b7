----------------------------- MODULE Permissions -----------------------------
(***************************************************************************)
(* The official roles and what each of them may do                         *)
(* (backend/growthos/domain/enums.py and domain/permissions.py).  The      *)
(* backend denies by default: a role holds exactly the capabilities the    *)
(* matrix lists for it.  Only the capabilities that guard a modelled       *)
(* operation appear here.                                                  *)
(***************************************************************************)

Roles == {"SUPER_ADMIN", "AGENCY_ADMIN", "STRATEGIST", "CONTENT_EDITOR",
          "DESIGNER", "CLIENT_OWNER", "CLIENT_REVIEWER", "VIEWER"}

\* BUSINESS_SCOPED_ROLES: the roles of the client portal, always tied to one
\* business.
BusinessScopedRoles == {"CLIENT_OWNER", "CLIENT_REVIEWER", "VIEWER"}

AgencyRoles == Roles \ BusinessScopedRoles

\* The roles of _ROLE_CAPABILITIES that hold a capability, SUPER_ADMIN apart:
\* that role holds every capability.
HoldersOf(capability) ==
  CASE capability \in {"CONTENT_CREATE", "CONTENT_EDIT_TEXT", "PUBLICATION_RECORD",
                       "STRATEGY_MANAGE", "CALENDAR_MANAGE"}
         -> {"AGENCY_ADMIN", "STRATEGIST", "CONTENT_EDITOR"}
    [] capability \in {"BRAND_MANAGE", "SERVICE_MANAGE", "AUDIENCE_MANAGE", "OBJECTIVE_MANAGE"}
         -> {"AGENCY_ADMIN", "STRATEGIST", "CONTENT_EDITOR"}
    [] capability = "VISUAL_PROMPT_GENERATE"
         -> {"AGENCY_ADMIN", "STRATEGIST", "CONTENT_EDITOR", "DESIGNER"}
    [] capability \in {"CONTENT_SEND_CLIENT", "STRATEGY_REVIEW_INTERNAL", "BUSINESS_MANAGE"}
         -> {"AGENCY_ADMIN", "STRATEGIST"}
    [] capability = "CONTENT_SUBMIT_INTERNAL"
         -> {"AGENCY_ADMIN", "STRATEGIST", "CONTENT_EDITOR", "DESIGNER"}
    [] capability \in {"CONTENT_EDIT_VISUAL", "MEDIA_MANAGE", "PRESET_MANAGE"}
         -> {"AGENCY_ADMIN", "DESIGNER"}
    [] capability = "MEDIA_UPLOAD"
         -> {"AGENCY_ADMIN", "CONTENT_EDITOR", "DESIGNER"}
    [] capability \in {"CONTENT_DECIDE_CLIENT", "STRATEGY_DECIDE_CLIENT"}
         -> {"CLIENT_OWNER", "CLIENT_REVIEWER"}
    [] capability \in {"MEMBERSHIP_MANAGE", "INVITATION_MANAGE"}
         -> {"AGENCY_ADMIN"}
    [] capability \in {"CLIENT_MEMBERSHIP_MANAGE", "CLIENT_INVITATION_MANAGE"}
         -> {"CLIENT_OWNER"}
    [] OTHER -> {}

\* has_capability
HasCapability(role, capability) ==
  role \in HoldersOf(capability) \cup {"SUPER_ADMIN"}
=============================================================================
