------------------------------- MODULE Reviews -------------------------------
(***************************************************************************)
(* review.service: shoppers review what was delivered to them, staff       *)
(* moderates.  Every handler reads the review first and writes through     *)
(* that copy in a transaction of its own, so an edit and a moderation of   *)
(* the same review may each be based on what the other one changes.        *)
(***************************************************************************)
EXTENDS Naturals

CONSTANTS Authors,     \* shoppers
          Goods,       \* product variants
          ReviewIds,   \* bound: ids of the rows of reviews in one behaviour
          Texts,       \* bound: what a review may say (rating, title, comment, fit, images)
          Handlers,    \* requests in flight at the same time
          MaxHelpful,  \* bound: helpful votes of one review
          MaxEdits     \* bound: requests that read and then write, in one behaviour

ASSUME ReviewsAssumption == ReviewIds \subseteq Nat /\ MaxHelpful \in Nat /\ MaxEdits \in Nat

VARIABLES review,     \* per id: its row
          received,  \* pairs of author and variant with an order in status DELIVERED
          handler,    \* per request: the copy it holds and what it is about to write
          started,    \* requests so far
          vetted,     \* history, per review: the texts that staff approved or wrote itself
          outpaced    \* history: reviews written through an outdated copy since they were
                      \* last moderated

reviewsVars == <<review, received, handler, started, vetted, outpaced>>

ReviewStatus == {"PENDING", "APPROVED", "REJECTED"}
Review == [author : Authors, variant : Goods, text : Texts, status : ReviewStatus, helpful : 0..MaxHelpful]
NoReview == [status |-> "ABSENT"]
Deleted == [status |-> "DELETED"]   \* ids are never used again

AtRest == [does |-> "nothing"]
HandlerState ==
  {AtRest}
    \union [does : {"create"}, author : Authors, variant : Goods, text : Texts]
    \union [does : {"edit", "staff edit"}, id : ReviewIds, copy : Review, text : Texts, outdated : BOOLEAN]
    \union [does : {"moderate"}, id : ReviewIds, copy : Review, to : {"APPROVED", "REJECTED"}, outdated : BOOLEAN]
    \union [does : {"vote", "remove"}, id : ReviewIds]

ReviewsTypeOK ==
  /\ review \in [ReviewIds -> Review \union {NoReview, Deleted}]
  /\ received \subseteq Authors \X Goods
  /\ handler \in [Handlers -> HandlerState]
  /\ started \in 0..MaxEdits
  /\ vetted \in [ReviewIds -> SUBSET Texts]
  /\ outpaced \subseteq ReviewIds

ReviewsInit ==
  /\ review = [r \in ReviewIds |-> NoReview]
  /\ received = {}
  /\ handler = [h \in Handlers |-> AtRest]
  /\ started = 0
  /\ vetted = [r \in ReviewIds |-> {}]
  /\ outpaced = {}

Present(r) == review[r].status \in ReviewStatus
\* Rows take the next id.
NextReview ==
  LET free == {r \in ReviewIds : review[r] = NoReview} IN {r \in free : \A q \in free : r <= q}

ReviewsOf(a, v) == {r \in ReviewIds : Present(r) /\ review[r].author = a /\ review[r].variant = v}

-----------------------------------------------------------------------------
(* What a handler reads and checks before its transaction.                 *)

Handles(h, request) ==
  /\ handler[h] = AtRest
  /\ started < MaxEdits
  /\ handler' = [handler EXCEPT ![h] = request]
  /\ started' = started + 1
  /\ UNCHANGED <<review, received, vetted, outpaced>>

\* No review of the variant yet, and an order of it that was delivered.
BeginCreateReview(h, a, v, text) ==
  /\ ReviewsOf(a, v) = {}
  /\ <<a, v>> \in received
  /\ Handles(h, [does |-> "create", author |-> a, variant |-> v, text |-> text])

\* "edit" is the author's, "staff edit" that of a privileged user.
BeginUpdateReview(h, r, who, text) ==
  /\ Present(r)
  /\ Handles(h, [does |-> who, id |-> r, copy |-> review[r], text |-> text, outdated |-> FALSE])

BeginModerate(h, r, status) ==
  /\ Present(r)
  /\ Handles(h, [does |-> "moderate", id |-> r, copy |-> review[r], to |-> status, outdated |-> FALSE])

BeginVoteHelpful(h, r) ==
  /\ Present(r) /\ review[r].status = "APPROVED"
  /\ Handles(h, [does |-> "vote", id |-> r])

BeginRemoveReview(h, r) == Present(r) /\ Handles(h, [does |-> "remove", id |-> r])

-----------------------------------------------------------------------------
(* What its transaction writes.                                            *)

\* The request of h ends; copies of r that others hold are outdated now.
Ends(h, r) ==
  handler' = [g \in Handlers |->
    IF g = h THEN AtRest
    ELSE IF handler[g].does \in {"edit", "staff edit", "moderate"} /\ handler[g].id = r
         THEN [handler[g] EXCEPT !.outdated = TRUE]
         ELSE handler[g]]

\* Columns that differ from the copy are written; a row that is gone stays gone.
Updated(r, copy, fields) ==
  IF ~Present(r) THEN review
  ELSE [review EXCEPT ![r] =
          [col \in DOMAIN @ |-> IF col \in DOMAIN fields /\ fields[col] # copy[col] THEN fields[col] ELSE @[col]]]

\* (customer, variant) is unique: the second of two creations is rolled back.
CreateReview(h) ==
  LET new == handler[h] IN
  /\ new.does = "create"
  /\ IF ReviewsOf(new.author, new.variant) # {}
     THEN handler' = [handler EXCEPT ![h] = AtRest] /\ UNCHANGED review
     ELSE \E r \in NextReview :
            /\ review' = [review EXCEPT ![r] =
                 [author |-> new.author, variant |-> new.variant, text |-> new.text,
                  status |-> "PENDING", helpful |-> 0]]
            /\ Ends(h, r)
  /\ UNCHANGED <<received, started, vetted, outpaced>>

\* (Slip: an edited review keeps its status.)
UpdateFields_NoRemoderation(request) == [text |-> request.text]

\* The author's edit asks for moderation again, the staff's does not.
UpdateFields(request) ==
  IF request.does = "edit" THEN [text |-> request.text, status |-> "PENDING"] ELSE [text |-> request.text]

UpdateReview(h) ==
  LET r == handler[h].id IN
  /\ handler[h].does \in {"edit", "staff edit"}
  /\ review' = Updated(r, handler[h].copy, UpdateFields(handler[h]))
  /\ vetted' = IF handler[h].does = "staff edit" THEN [vetted EXCEPT ![r] = @ \union {handler[h].text}] ELSE vetted
  /\ outpaced' = IF handler[h].outdated THEN outpaced \union {r} ELSE outpaced
  /\ Ends(h, r)
  /\ UNCHANGED <<received, started>>

Moderate(h) ==
  LET r == handler[h].id IN
  /\ handler[h].does = "moderate"
  /\ review' = Updated(r, handler[h].copy, [status |-> handler[h].to])
  /\ vetted' = [vetted EXCEPT ![r] =
       IF handler[h].to = "APPROVED" THEN {handler[h].copy.text} ELSE {}]
  /\ outpaced' = IF handler[h].outdated THEN outpaced \union {r} ELSE outpaced \ {r}
  /\ Ends(h, r)
  /\ UNCHANGED <<received, started>>

\* An increment of the row, by id.
VoteHelpful(h) ==
  LET r == handler[h].id IN
  /\ handler[h].does = "vote"
  /\ Present(r) => review[r].helpful < MaxHelpful
  /\ review' = IF Present(r) THEN [review EXCEPT ![r].helpful = @ + 1] ELSE review
  /\ handler' = [handler EXCEPT ![h] = AtRest]
  /\ UNCHANGED <<received, started, vetted, outpaced>>

RemoveReview(h) ==
  LET r == handler[h].id IN
  /\ handler[h].does = "remove"
  /\ review' = [review EXCEPT ![r] = IF Present(r) THEN Deleted ELSE @]
  /\ Ends(h, r)
  /\ UNCHANGED <<received, started, vetted, outpaced>>

HandlerDies(h) ==
  /\ handler[h] # AtRest
  /\ handler' = [handler EXCEPT ![h] = AtRest]
  /\ UNCHANGED <<review, received, started, vetted, outpaced>>

-----------------------------------------------------------------------------

\* Orders are delivered, and returned, by their own module.
DeliveryChanges(a, v) ==
  /\ received' = IF <<a, v>> \in received THEN received \ {<<a, v>>} ELSE received \union {<<a, v>>}
  /\ UNCHANGED <<review, handler, started, vetted, outpaced>>

ReviewRequest(h) ==
  \/ \E a \in Authors, v \in Goods, text \in Texts : BeginCreateReview(h, a, v, text)
  \/ \E r \in ReviewIds :
       \/ \E text \in Texts, who \in {"edit", "staff edit"} : BeginUpdateReview(h, r, who, text)
       \/ \E status \in {"APPROVED", "REJECTED"} : BeginModerate(h, r, status)
       \/ BeginVoteHelpful(h, r) \/ BeginRemoveReview(h, r)

ReviewsNext ==
  \/ \E h \in Handlers :
       \/ ReviewRequest(h)
       \/ CreateReview(h) \/ UpdateReview(h) \/ Moderate(h) \/ VoteHelpful(h) \/ RemoveReview(h)
       \/ HandlerDies(h)
  \/ \E a \in Authors, v \in Goods : DeliveryChanges(a, v)

ReviewsSpec == ReviewsInit /\ [][ReviewsNext]_reviewsVars

-----------------------------------------------------------------------------

\* What the shop shows of a review is what staff approved, or wrote itself: an author
\* never gets another text published under an approval, however edits, moderations and
\* removals follow each other.  The exception is a review written through a copy that
\* another request had made outdated (review.service.js:98-178).
PublishedAsModerated ==
  \A r \in ReviewIds \ outpaced :
    Present(r) /\ review[r].status = "APPROVED" => review[r].text \in vetted[r]
=============================================================================
