-------------------------- MODULE AfterburnerItems --------------------------
(***************************************************************************)
(* The items of an afterburner profile (apps/afterburners/models.py), what  *)
(* its form accepts (forms.py) and how the views edit and order them        *)
(* (views.py).  An item asks questions on the machine a build is restored   *)
(* on; a question whose answer key is set is answered from a file.          *)
(*                                                                          *)
(* Of an item's configuration this keeps the answer keys of its first       *)
(* question, of its password and of its yes/no question ("" for none),      *)
(* which values are preset, the device and the autodetection of the items   *)
(* about LUKS, and whether it insists: on asking for credentials, or on an  *)
(* answer to a required input of a custom script.                           *)
(***************************************************************************)
EXTENDS FiniteSetsExt, SequencesExt, Integers

CONSTANTS
    Ids,            \* primary keys of item rows, numbers
    AnswerKeys,     \* names of answer keys
    Devices,        \* paths of block devices
    Posted,         \* what the item form is given
    OrderLimit      \* bound on the order numbers

VARIABLES
    rows,       \* item rows of the profile: primary key -> [order, item]
    rejected    \* the last request ended in an IntegrityError

web == <<rows, rejected>>

ItemTypes == {"hostname", "local_user", "ad_join", "static_ip", "luks_rotate",
              "bootloader_password", "tpm_integration", "redhat_registration",
              "wait_for_enter", "custom_script"}

LuksTypes == {"luks_rotate", "tpm_integration"}

Presets == {"first", "rest", "userpass", "activation"}

Items == [type : ItemTypes,
          first : AnswerKeys \cup {""},
          secret : AnswerKeys \cup {""},
          flag : AnswerKeys \cup {""},
          preset : SUBSET Presets,
          device : Devices \cup {""},
          auto : BOOLEAN,
          ask : BOOLEAN]

ASSUME ItemsAssumption ==
    /\ Ids \subseteq Nat /\ IsFiniteSet(Ids)
    /\ "" \notin AnswerKeys \cup Devices
    /\ OrderLimit \in Nat
    /\ Posted \subseteq Items

-----------------------------------------------------------------------------
(* The form *)

ValidLuks(item) == item.auto \/ item.device # ""

\* A domain or an interface has to be there for the values that belong to it.
ValidNetwork(item) == "rest" \in item.preset => "first" \in item.preset

\* One preset way to register, or none when the credentials are asked for.
ValidRegistration(item) ==
    LET ways == item.preset \cap {"userpass", "activation"}
    IN  Cardinality(ways) = 1 \/ (ways = {} /\ item.ask)

\* AfterburnerItemForm.clean.
ValidItem(item) ==
    CASE item.type \in LuksTypes -> ValidLuks(item)
      [] item.type \in {"ad_join", "static_ip"} -> ValidNetwork(item)
      [] item.type = "redhat_registration" -> ValidRegistration(item)
      [] item.type = "wait_for_enter" -> "first" \in item.preset
      [] OTHER -> TRUE

\* The questions of a custom script are made anew from the form, each an optional
\* string, whatever the inputs were before.
Saved(item) == IF item.type = "custom_script" THEN [item EXCEPT !.ask = FALSE] ELSE item

-----------------------------------------------------------------------------
(* Rows *)

\* order_by("order", "id"); no two rows have the same order.
Siblings ==
    CHOOSE ids \in SetToSeqs(DOMAIN rows) :
        \A m, n \in DOMAIN ids : m < n => rows[ids[m]].order < rows[ids[n]].order

MaxOrder == Max({0} \cup {rows[i].order : i \in DOMAIN rows})

\* Bug: every item about LUKS keeps answer keys of its own.
Synced_Own(rs, item) == rs

\* _sync_shared_luks_tpm_answer_keys: the keys of the item just saved go to all
\* items about LUKS of the profile.
Synced(rs, item) ==
    IF item.type \notin LuksTypes THEN rs
    ELSE [i \in DOMAIN rs |->
            IF rs[i].item.type \in LuksTypes
            THEN [rs[i] EXCEPT !.item.flag = item.flag, !.item.secret = item.secret]
            ELSE rs[i]]

\* One UPDATE of the order column, checked row by row against the unique constraint
\* on profile and order: the first row whose new number is taken ends it.
Renumbered(rs, order) ==
    MapThenFoldSet(
        LAMBDA i, acc :
            IF \E j \in DOMAIN rs \ {i} : acc.rows[j].order = order[i]
            THEN [acc EXCEPT !.ok = FALSE]
            ELSE [acc EXCEPT !.rows[i].order = order[i]],
        [rows |-> rs, ok |-> TRUE], LAMBDA i : i, Max, DOMAIN rs)

\* Bug: the final numbers are written at once.
Resequenced_Direct(rs, ids) ==
    Renumbered(rs, [i \in Range(ids) |-> CHOOSE n \in DOMAIN ids : ids[n] = i])

\* _resequence_orders: the rows get numbers above all others first, then 1, 2, ...
Resequenced(rs, ids) ==
    LET base == Max({rs[i].order : i \in DOMAIN rs}) + Len(ids) + 100
        place == [i \in Range(ids) |-> CHOOSE n \in DOMAIN ids : ids[n] = i]
        above == Renumbered(rs, [i \in Range(ids) |-> base + place[i]])
        final == Renumbered(above.rows, place)
    IN  [rows |-> final.rows, ok |-> above.ok /\ final.ok]

-----------------------------------------------------------------------------
(* The views *)

\* AfterburnerItemInlineCreateView: the next number, then the shared keys.
CreateItem ==
    \E id \in Ids \ DOMAIN rows, item \in Posted :
        /\ ValidItem(item)
        /\ MaxOrder < OrderLimit
        /\ LET row == [order |-> MaxOrder + 1, item |-> Saved(item)]
               grown == [i \in DOMAIN rows \cup {id} |-> IF i = id THEN row ELSE rows[i]]
           IN  rows' = Synced(grown, item)
        /\ rejected' = FALSE

\* AfterburnerItemInlineUpdateView.
UpdateItem ==
    \E id \in DOMAIN rows, item \in Posted :
        /\ ValidItem(item)
        /\ rows' = Synced([rows EXCEPT ![id].item = Saved(item)], item)
        /\ rejected' = FALSE

\* AfterburnerItemDeleteView: the other rows keep their numbers.
DeleteItem ==
    \E id \in DOMAIN rows :
        /\ rows' = [i \in DOMAIN rows \ {id} |-> rows[i]]
        /\ rejected' = FALSE

\* A resequencing is a transaction of its own.
Resequence(ids) ==
    LET result == Resequenced(rows, ids)
    IN  /\ rows' = IF result.ok THEN result.rows ELSE rows
        /\ rejected' = ~result.ok

\* AfterburnerItemMoveView: up and down exchange two neighbours.
MoveItem ==
    \E n \in 1..(Len(Siblings) - 1) :
        Resequence([Siblings EXCEPT ![n] = Siblings[n + 1], ![n + 1] = Siblings[n]])

\* AfterburnerItemReorderView: the posted identifiers have to be those of the rows.
ReorderItems ==
    \E ids \in SetToSeqs(DOMAIN rows) : ids # <<>> /\ Resequence(ids)

\* The views for a single input of a custom script make it required or optional.
EditInputs ==
    \E id \in DOMAIN rows, required \in BOOLEAN :
        /\ rows[id].item.type = "custom_script"
        /\ rows' = [rows EXCEPT ![id].item.ask = required]
        /\ rejected' = FALSE

Edit ==
    CreateItem \/ UpdateItem \/ DeleteItem \/ MoveItem \/ ReorderItems \/ EditInputs
=============================================================================
