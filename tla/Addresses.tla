------------------------------ MODULE Addresses ------------------------------
(***************************************************************************)
(* customer.service: the addresses of one customer, one of which is the    *)
(* default for shipping and one for billing.  Two partial unique indexes   *)
(* allow no second default.  A handler reads the address, or counts the    *)
(* addresses, and writes what follows from that; removal asks for the      *)
(* remaining addresses on a connection outside its own transaction.        *)
(***************************************************************************)
EXTENDS Naturals, Sequences, FiniteSetsExt

CONSTANTS Callers,       \* requests in flight at the same time
          MaxAddresses,  \* bound: addresses entered in one behaviour
          MaxCalls       \* bound: requests of one behaviour

ASSUME AddressesAssumption == MaxAddresses \in Nat /\ MaxCalls \in Nat

VARIABLES address,  \* the rows in the order of their creation
          caller,   \* per request: what it read and is about to write
          calls,    \* requests so far
          waived    \* history: a default was switched off, or set by a request that
                    \* another one had overtaken, since there last was no address

addressesVars == <<address, caller, calls, waived>>

Uses == {"shipping", "billing"}
Address == [live : BOOLEAN, defaults : SUBSET Uses]   \* deleted_at, is_default_shipping and _billing
AddressIds == 1..MaxAddresses

Away == [at |-> "away"]
CallerState ==
  {Away}
    \union [at : {"add"}, first : BOOLEAN, claims : SUBSET Uses, overtaken : BOOLEAN]
    \union [at : {"update"}, id : AddressIds, copy : SUBSET Uses, claims : SUBSET Uses, drops : SUBSET Uses, overtaken : BOOLEAN]
    \union [at : {"remove"}, id : AddressIds, copy : SUBSET Uses, overtaken : BOOLEAN]
    \union [at : {"promote"}, id : AddressIds, copy : SUBSET Uses, next : 0..MaxAddresses,
            seen : SUBSET Uses, overtaken : BOOLEAN]

AddressesTypeOK ==
  /\ address \in Seq(Address) /\ Len(address) <= MaxAddresses
  /\ caller \in [Callers -> CallerState]
  /\ calls \in 0..MaxCalls
  /\ waived \in BOOLEAN

AddressesInit ==
  /\ address = <<>>
  /\ caller = [c \in Callers |-> Away]
  /\ calls = 0
  /\ waived = FALSE

Live == {i \in DOMAIN address : address[i].live}

\* findAddress and listAddresses see what is committed and not deleted; newest first.
Newest(ids) == IF ids = {} THEN 0 ELSE Max(ids)

-----------------------------------------------------------------------------
(* What a handler reads.                                                   *)

Calls(c, request) ==
  /\ caller[c] = Away
  /\ calls < MaxCalls
  /\ caller' = [caller EXCEPT ![c] = request]
  /\ calls' = calls + 1
  /\ UNCHANGED <<address, waived>>

\* The first address is counted as such inside the transaction, which locks nothing.
CountAddresses(c, claims) ==
  Calls(c, [at |-> "add", first |-> Live = {}, claims |-> claims, overtaken |-> FALSE])

\* The body names a flag as true, as false, or not at all.
FindAddressToUpdate(c, i, claims, drops) ==
  /\ claims \intersect drops = {}
  /\ Calls(c, [at |-> "update", id |-> i, copy |-> address[i].defaults, claims |-> claims, drops |-> drops,
               overtaken |-> FALSE])

FindAddressToRemove(c, i) ==
  Calls(c, [at |-> "remove", id |-> i, copy |-> address[i].defaults, overtaken |-> FALSE])

-----------------------------------------------------------------------------
(* What it writes.                                                         *)

\* Rows that a removal has deleted and not yet committed: who writes them waits.
Locked == {caller[c].id : c \in {x \in Callers : caller[x].at = "promote"}}

\* addresses_one_default_shipping and addresses_one_default_billing.
OneDefault(rows) ==
  \A i, j \in DOMAIN rows :
    rows[i].live /\ rows[j].live /\ i # j => rows[i].defaults \intersect rows[j].defaults = {}

\* An index entry of a row being deleted is waited for as well.
MayWrite(ids, claims) ==
  /\ ids \intersect Locked = {}
  /\ \A i \in Locked : address[i].defaults \intersect claims = {}

\* clearDefaults, after the write it follows.
Cleared(rows, uses, except) ==
  [i \in DOMAIN rows |-> IF rows[i].live /\ i # except THEN [rows[i] EXCEPT !.defaults = @ \ uses] ELSE rows[i]]

Returns(c, rows) ==
  caller' = [x \in Callers |->
    IF x = c THEN Away
    ELSE IF caller[x] = Away THEN Away
    ELSE [caller[x] EXCEPT !.overtaken = @ \/ rows # address]]

\* The transaction commits, or the unique index makes it fail.
Finishes(c, written, rows, spoils) ==
  IF OneDefault(written)
  THEN /\ address' = rows
       /\ Returns(c, rows)
       /\ waived' = (({i \in DOMAIN rows : rows[i].live} # {}) /\ (waived \/ spoils \/ caller[c].overtaken))
       /\ UNCHANGED calls
  ELSE /\ Returns(c, address)
       /\ UNCHANGED <<address, calls, waived>>

\* addAddress inserts the row with its flags and only then clears the others.
AddAddress(c) ==
  LET uses == IF caller[c].first THEN Uses ELSE caller[c].claims
      written == Append(address, [live |-> TRUE, defaults |-> uses])
  IN
  /\ caller[c].at = "add"
  /\ Len(address) < MaxAddresses
  /\ MayWrite({}, uses)
  /\ Finishes(c, written, Cleared(written, uses, Len(written)), FALSE)

\* Only flags that differ from the copy are written; the others are cleared all the same.
UpdateAddress(c) ==
  LET i == caller[c].id
      claims == caller[c].claims
      changed == (claims \ caller[c].copy) \union (caller[c].drops \intersect caller[c].copy)
      written == [address EXCEPT ![i].defaults = (@ \ changed) \union (claims \intersect changed)]
  IN
  /\ caller[c].at = "update"
  /\ MayWrite(IF claims = {} THEN {i} ELSE DOMAIN address, claims)
  /\ IF address[i].live
     THEN Finishes(c, written, Cleared(written, claims, i), caller[c].drops # {})
     ELSE Finishes(c, address, Cleared(address, claims, i), FALSE)

\* removeAddress deletes the row, and sees the others as they are committed by then.
DestroyAddress(c) ==
  LET next == Newest(Live \ {caller[c].id}) IN
  /\ caller[c].at = "remove"
  /\ caller[c].id \notin Locked
  /\ caller' = [caller EXCEPT ![c] =
       [at |-> "promote", id |-> caller[c].id, copy |-> caller[c].copy, next |-> next,
        seen |-> IF next = 0 THEN {} ELSE address[next].defaults, overtaken |-> caller[c].overtaken]]
  /\ UNCHANGED <<address, calls, waived>>

\* (Slip: the flags go with the address.)
Inherited_Nothing(copy) == {}

\* The flags a remaining address takes over: those of the deleted one, as it was read.
Inherited(copy) == copy

PromoteRemaining(c) ==
  LET i == caller[c].id
      next == caller[c].next
      deleted == [address EXCEPT ![i].live = FALSE]
      gains == Inherited(caller[c].copy) \ caller[c].seen
      rows == IF next # 0 /\ deleted[next].live THEN [deleted EXCEPT ![next].defaults = @ \union gains] ELSE deleted
  IN
  /\ caller[c].at = "promote"
  /\ next \notin Locked \/ gains = {}
  /\ Finishes(c, rows, rows, FALSE)

\* A crash, a deadlock found by the database, or a lost connection.
CallDies(c) ==
  /\ caller[c] # Away
  /\ caller' = [caller EXCEPT ![c] = Away]
  /\ UNCHANGED <<address, calls, waived>>

\* customer.controller: what is asked for.
AddressRequest(c) ==
  \/ \E claims \in SUBSET Uses :
       \/ CountAddresses(c, claims)
       \/ \E i \in Live, drops \in SUBSET Uses : FindAddressToUpdate(c, i, claims, drops)
  \/ \E i \in Live : FindAddressToRemove(c, i)

AddressesNext ==
  \E c \in Callers :
    \/ AddressRequest(c)
    \/ AddAddress(c) \/ UpdateAddress(c) \/ DestroyAddress(c) \/ PromoteRemaining(c) \/ CallDies(c)

AddressesSpec == AddressesInit /\ [][AddressesNext]_addressesVars

-----------------------------------------------------------------------------

\* A customer with addresses has a default for shipping and one for billing: the first
\* address is both, and what is removed hands its flags on.  Only a request that
\* switches a flag off, or one that another request overtook, leaves a customer without
\* (customer.service.js:83-136).
DefaultsAreKept ==
  ~waived /\ Live # {} => \A use \in Uses : \E i \in Live : use \in address[i].defaults

\* "clears the previous default when a later address claims it"
\* (tests/customers.service.test.js:81): an address that claims a default is added.
LaterAddressTakesDefault ==
  [][\A c \in Callers : AddAddress(c) /\ ~caller[c].overtaken => address' # address]_addressesVars
=============================================================================
