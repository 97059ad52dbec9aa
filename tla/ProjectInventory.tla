--------------------------- MODULE ProjectInventory ---------------------------
(***************************************************************************)
(* AwsInventoryAdapter._list_project_cloudformation_resources: the fixed   *)
(* stacks are listed one after the other, page after page, under a cap on  *)
(* the pages of a stack and a cap on the resources of the result.          *)
(*                                                                         *)
(* CloudFormation is not trusted: any request may fail, any answer may be  *)
(* malformed, and a page may hold any items and any next token.  A stack   *)
(* is its position in PROJECT_STACKS; an item is its logical identifier,   *)
(* or Malformed when its sanitisation refuses it.                          *)
(***************************************************************************)
EXTENDS Naturals, Sequences, FiniteSets

CONSTANTS StackCount,     \* Len(PROJECT_STACKS)
          MaxPages,       \* MAX_PROJECT_INVENTORY_PAGES
          MaxResources,   \* MAX_PROJECT_INVENTORY_RESOURCES
          LogicalId, Malformed,
          Page,           \* the sequences of items a page may hold
          PageToken

Item == LogicalId \cup {Malformed}
Stack == 1..StackCount

\* What NextToken may be in an answer, and in a request.
Absent == "absent"
Invalid == "invalid"

ASSUME InventoryAssumption ==
    /\ StackCount \in Nat \ {0} /\ MaxPages \in Nat \ {0}
    /\ MaxResources \in Nat \ {0}
    /\ Malformed \notin LogicalId
    /\ Page \subseteq Seq(Item)
    /\ Absent \notin PageToken /\ Invalid \notin PageToken

VARIABLES project_pc,
          stack, pages, next_token, seen_tokens,  \* of the stack being listed
          items, token,                           \* of the page being read
          resources, issue_codes, complete, sdk_requests,
          offered,  \* how many items CloudFormation has answered with
          ended,    \* stacks found to end: a page without a token was read to its end
          asked     \* the pages that were asked for

stackVars == <<stack, pages, next_token, seen_tokens>>
pageVars == <<items, token>>
sentVars == <<sdk_requests, offered, asked>>
projectVars == <<project_pc, stackVars, pageVars, resources, issue_codes, complete, sentVars, ended>>

Issues == {"client_unavailable", "page_limit", "stack_unavailable",
           "invalid_response", "invalid_resource", "duplicate_resource",
           "resource_limit", "invalid_token", "repeated_token"}

ProjectTypeOK ==
    /\ project_pc \in {"start", "ask", "read", "done"}
    /\ stack \in Stack
    /\ pages \in 0..MaxPages
    /\ next_token \in PageToken \cup {Absent}
    /\ seen_tokens \subseteq PageToken
    /\ items \in Seq(Item)
    /\ token \in PageToken \cup {Absent, Invalid}
    /\ resources \in Seq(Stack \X LogicalId)
    /\ issue_codes \subseteq Issues
    /\ complete \in BOOLEAN
    /\ sdk_requests \in Nat /\ offered \in Nat
    /\ ended \subseteq Stack
    /\ asked \subseteq Stack \X (PageToken \cup {Absent})

ProjectInit ==
    /\ project_pc = "start"
    /\ stack = 1 /\ pages = 0 /\ next_token = Absent /\ seen_tokens = {}
    /\ items = <<>> /\ token = Absent
    /\ resources = <<>> /\ issue_codes = {} /\ complete = TRUE
    /\ sdk_requests = 0 /\ offered = 0 /\ asked = {}
    /\ ended = {}

-----------------------------------------------------------------------------
AddIssue(code) == issue_codes' = issue_codes \cup {code}

AtResourceLimit == Len(resources) >= MaxResources

\* The loop over a stack ends, by break unless it is fine; the next stack is
\* listed unless the result is full.
Leave(fine) ==
    /\ complete' = (complete /\ fine /\ ~AtResourceLimit)
    /\ IF AtResourceLimit \/ stack = StackCount
         THEN project_pc' = "done" /\ UNCHANGED stackVars
         ELSE /\ project_pc' = "ask"
              /\ stack' = stack + 1 /\ pages' = 0
              /\ next_token' = Absent /\ seen_tokens' = {}

ClientFails ==
    /\ project_pc = "start"
    /\ project_pc' = "done" /\ complete' = FALSE
    /\ AddIssue("client_unavailable")
    /\ UNCHANGED <<stackVars, pageVars, resources, sentVars, ended>>

ClientCreated ==
    /\ project_pc = "start"
    /\ project_pc' = "ask"
    /\ UNCHANGED <<stackVars, pageVars, resources, issue_codes, complete, sentVars, ended>>

PageLimit ==
    /\ project_pc = "ask" /\ pages >= MaxPages
    /\ AddIssue("page_limit")
    /\ Leave(FALSE)
    /\ UNCHANGED <<pageVars, resources, sentVars, ended>>

MayAsk == project_pc = "ask" /\ pages < MaxPages

SendRequest ==
    /\ MayAsk
    /\ sdk_requests' = sdk_requests + 1
    /\ asked' = asked \cup {<<stack, next_token>>}

\* list_stack_resources raises, or its answer is not a list of summaries.
RequestFails ==
    /\ SendRequest
    /\ \E code \in {"stack_unavailable", "invalid_response"} : AddIssue(code)
    /\ Leave(FALSE)
    /\ UNCHANGED <<pageVars, resources, offered, ended>>

ReceivePage ==
    /\ SendRequest
    /\ pages' = pages + 1
    /\ \E page \in Page :
          /\ items' = page
          /\ offered' = offered + Len(page)
    /\ token' \in PageToken \cup {Absent, Invalid}
    /\ project_pc' = "read"
    /\ UNCHANGED <<stack, next_token, seen_tokens, resources, issue_codes, complete, ended>>

-----------------------------------------------------------------------------
(* The items of a page, in order. *)

Key == <<stack, Head(items)>>
Seen == \E i \in DOMAIN resources : resources[i] = Key

Omit(code) ==
    /\ complete' = FALSE
    /\ AddIssue(code)
    /\ items' = Tail(items)
    /\ UNCHANGED <<project_pc, stackVars, token, resources, sentVars, ended>>

OmitMalformed ==
    /\ project_pc = "read" /\ items # <<>>
    /\ Head(items) = Malformed
    /\ Omit("invalid_resource")

OmitDuplicate ==
    /\ project_pc = "read" /\ items # <<>>
    /\ Head(items) # Malformed /\ Seen
    /\ Omit("duplicate_resource")

Keep ==
    /\ project_pc = "read" /\ items # <<>>
    /\ Head(items) # Malformed /\ ~Seen /\ ~AtResourceLimit
    /\ resources' = Append(resources, Key)
    /\ items' = Tail(items)
    /\ UNCHANGED <<project_pc, stackVars, token, issue_codes, complete, sentVars, ended>>

\* The cap is met inside a page: the rest of the page is not looked at.
StopAtLimit ==
    /\ project_pc = "read" /\ items # <<>>
    /\ Head(items) # Malformed /\ ~Seen /\ AtResourceLimit
    /\ complete' = FALSE
    /\ items' = <<>>
    /\ UNCHANGED <<project_pc, stackVars, token, resources, issue_codes, sentVars, ended>>

-----------------------------------------------------------------------------
(* The end of a page. *)

AtEnd == project_pc = "read" /\ items = <<>>

ResultFull ==
    /\ AtEnd /\ AtResourceLimit
    /\ AddIssue("resource_limit")
    /\ Leave(FALSE)
    /\ UNCHANGED <<pageVars, resources, sentVars, ended>>

LastPage ==
    /\ AtEnd /\ ~AtResourceLimit
    /\ token = Absent
    /\ ended' = ended \cup {stack}
    /\ Leave(TRUE)
    /\ UNCHANGED <<pageVars, resources, issue_codes, sentVars>>

BadToken ==
    /\ AtEnd /\ ~AtResourceLimit
    /\ \/ token = Invalid /\ AddIssue("invalid_token")
       \/ token \in seen_tokens /\ AddIssue("repeated_token")
    /\ Leave(FALSE)
    /\ UNCHANGED <<pageVars, resources, sentVars, ended>>

FollowToken ==
    /\ AtEnd /\ ~AtResourceLimit
    /\ token \in PageToken \ seen_tokens
    /\ seen_tokens' = seen_tokens \cup {token}
    /\ next_token' = token
    /\ project_pc' = "ask"
    /\ UNCHANGED <<stack, pages, pageVars, resources, issue_codes, complete, sentVars, ended>>

-----------------------------------------------------------------------------
ProjectNext ==
    \/ ClientFails \/ ClientCreated
    \/ PageLimit \/ RequestFails \/ ReceivePage
    \/ OmitMalformed \/ OmitDuplicate \/ Keep \/ StopAtLimit
    \/ ResultFull \/ LastPage \/ BadToken \/ FollowToken

ProjectSpec == ProjectInit /\ [][ProjectNext]_projectVars

-----------------------------------------------------------------------------
(***************************************************************************)
(* A result that says it is complete holds every item CloudFormation       *)
(* answered with, and every stack was listed to a page with no token after *)
(* it, whatever was malformed, repeated, cut or failed on the way.         *)
(***************************************************************************)
CompleteMeansAll ==
    project_pc = "done" /\ complete => Len(resources) = offered /\ ended = Stack

(***************************************************************************)
(* No resource is listed twice, and the result stays within its cap.       *)
(***************************************************************************)
ListedOnce ==
    /\ Len(resources) <= MaxResources
    /\ \A i, j \in DOMAIN resources : resources[i] = resources[j] => i = j

(***************************************************************************)
(* However CloudFormation answers, the call makes at most the documented   *)
(* pages per stack, and asks for no page twice.                            *)
(***************************************************************************)
RequestsBounded ==
    /\ sdk_requests <= StackCount * MaxPages
    /\ sdk_requests = Cardinality(asked)
=============================================================================
