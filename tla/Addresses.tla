------------------------------- MODULE Addresses -------------------------------
(***************************************************************************)
(* One customer's address book: services/customer_addresses.py behind      *)
(* routers/customer.py, one request after the other.                       *)
(***************************************************************************)
EXTENDS Integers

CONSTANT MaxAddresses    \* bound on the rows ever inserted

ASSUME AddressesAssumption == MaxAddresses \in Nat

VARIABLE addresses    \* customer_addresses; ids in created_at order

AddressIds == 1..MaxAddresses
AddressStatus == {"none", "plain", "default", "deleted"}

BTypeOK == addresses \in [AddressIds -> AddressStatus]

BInit == addresses = [a \in AddressIds |-> "none"]

OnFile(book) == {a \in AddressIds : book[a] \in {"plain", "default"}}
Defaults == {a \in AddressIds : addresses[a] = "default"}

IsNextAddress(a) ==
    addresses[a] = "none" /\ \A b \in 1..(a - 1) : addresses[b] # "none"

\* The UPDATE that clears is_default before one address is given it.
MakeDefault(book, a) ==
    [b \in AddressIds |-> IF b = a THEN "default"
                          ELSE IF book[b] = "default" THEN "plain" ELSE book[b]]

\* The first address becomes the default, asked or not.
CreateAddress(a, is_default) ==
    /\ IsNextAddress(a)
    /\ addresses' = IF is_default \/ OnFile(addresses) = {}
                    THEN MakeDefault(addresses, a)
                    ELSE [addresses EXCEPT ![a] = "plain"]

\* is_default = False, or not sent, leaves the flags alone, as the other fields do.
UpdateAddress(a) ==
    /\ a \in OnFile(addresses)
    /\ addresses' = MakeDefault(addresses, a)

\* Slip: nobody takes over.
DeleteAddressOnly(a) ==
    /\ a \in OnFile(addresses)
    /\ addresses' = [addresses EXCEPT ![a] = "deleted"]

\* list_addresses: the default first, then by created_at, the newest first.
ListedBefore(book, a, b) ==
    \/ book[a] = "default" /\ book[b] = "plain"
    \/ book[a] = book[b] /\ a >= b

First(book) == CHOOSE a \in OnFile(book) : \A b \in OnFile(book) : ListedBefore(book, a, b)

DeleteAddress(a) ==
    LET book == [addresses EXCEPT ![a] = "deleted"]
    IN /\ a \in OnFile(addresses)
       /\ addresses' = IF addresses[a] = "default" /\ OnFile(book) # {}
                       THEN [book EXCEPT ![First(book)] = "default"]
                       ELSE book

BNext ==
    \E a \in AddressIds :
        \/ \E is_default \in BOOLEAN : CreateAddress(a, is_default)
        \/ UpdateAddress(a)
        \/ DeleteAddress(a)

\* get_default_address takes the first default it finds, and a cart falls back to
\* "asking for one again" when there is none (customer_addresses.py:64-67): after
\* any sequence of requests a customer with addresses has exactly one default.
OneDefault ==
    /\ OnFile(addresses) # {} => Defaults # {}
    /\ \A a, b \in Defaults : a = b

=============================================================================
