-------------------------- MODULE AfterburnerScript -------------------------
(***************************************************************************)
(* The afterburner script of a build (apps/afterburners/services.py) on a   *)
(* machine the build was restored on.  It is one bash program, "set -euo    *)
(* pipefail": the items of the profile one after the other, the first       *)
(* command that fails ends it.  The items about LUKS change who can open    *)
(* the machine's disk, so they are followed command by command; of the      *)
(* others this keeps what they ask, when they skip and how they end.        *)
(*                                                                          *)
(* Answers come from a file with the answer keys of the build               *)
(* (_collect_build_answer_keys, apps/builds/services/artifacts.py) or from  *)
(* an operator; power can be lost at any time.                              *)
(***************************************************************************)
EXTENDS AfterburnerItems

CONSTANTS
    Containers,     \* the LUKS containers of the restored disk
    AnswerFiles     \* answers an operator may fill in: answer key -> value or Missing

ASSUME ScriptAssumption ==
    /\ Containers \subseteq Devices /\ IsFiniteSet(Containers)
    /\ \A file \in AnswerFiles : DOMAIN file = AnswerKeys

Missing == "missing"

VARIABLES
    stage,      \* the editor, or what the machine does
    script,     \* the items the exported script runs
    answers,    \* the answers file
    tpm,        \* the machine has a TPM device
    listed,     \* containers /etc/crypttab names
    pos, step,  \* the item that runs, and where in it
    todo, dev,  \* its devices that are left, and the one it works on
    known,      \* the passphrase that opens dev
    fresh,      \* the passphrase it gets
    keys,       \* slots of every container
    aware       \* the initramfs of the restored system has clevis

machine == <<answers, tpm, listed>>
place == <<pos, step, todo, dev, known, fresh>>
disk == <<keys, aware>>
vars == <<rows, rejected, stage, script, answers, tpm, listed, pos, step, todo, dev,
          known, fresh, keys, aware>>

KS == INSTANCE KeySlots WITH Containers <- Containers, keys <- keys

Passphrases == {"build", "new"}

Steps == {"item", "password", "credentials", "repos", "next", "current", "new", "add",
          "remove", "bind", "list", "drop", "regenerate"}

-----------------------------------------------------------------------------
(* Questions *)

\* lookup_answer: a key that is in the file answers, with a blank value too; the
\* console is asked for the others.
Ask(key, replies) ==
    IF key # "" /\ answers[key] # Missing THEN {answers[key]} ELSE replies

\* prompt_text: a blank reply at the console is the default.
First(item) ==
    Ask(item.first, IF "first" \in item.preset THEN {"x"} ELSE {"", "x"})

Secret(item) == Ask(item.secret, Passphrases \cup {""})

\* Bug: an empty password will do.
Accepted_Any(secret) == TRUE

\* The loops around a password end with one that is not empty.
Accepted(secret) == secret # ""

-----------------------------------------------------------------------------
(* The script *)

Runs(type, at) ==
    /\ stage = "run" /\ step = at
    /\ pos \in DOMAIN script /\ script[pos].type = type

Item == script[pos]

\* On to the next item.
NextItem ==
    /\ pos' = pos + 1 /\ step' = "item"
    /\ todo' = {} /\ dev' = "" /\ known' = "" /\ fresh' = ""
    /\ UNCHANGED <<stage, keys>>

Advance == NextItem /\ UNCHANGED aware

\* exit 1, or set -e.
Fail == stage' = "failed" /\ UNCHANGED <<place, disk>>

Goto(to) == step' = to /\ UNCHANGED <<stage, pos, todo, dev, known, fresh, disk>>

Hostname ==
    /\ Runs("hostname", "item")
    /\ Advance \/ (\E name \in First(Item) : name # "" /\ Fail)

\* A blank user name skips the item.  useradd that fails ends the script: set -e
\* comes before the loop that would ask for another name.
LocalUser ==
    \/ /\ Runs("local_user", "item")
       /\ \E name \in First(Item) : IF name = "" THEN Advance ELSE Goto("password")
    \/ /\ Runs("local_user", "password")
       /\ \E secret \in Secret(Item) : Accepted(secret) /\ (Advance \/ Fail)

\* A domain without a password is an error.
AdJoin ==
    /\ Runs("ad_join", "item")
    /\ \E domain \in First(Item), secret \in Secret(Item) :
        \/ (domain = "" \/ secret # "") /\ Advance
        \/ domain # "" /\ Fail

StaticIp ==
    /\ Runs("static_ip", "item")
    /\ Advance \/ (\E interface \in First(Item) : interface # "" /\ Fail)

Bootloader ==
    \/ /\ Runs("bootloader_password", "item")
       /\ \E user \in First(Item) : IF user = "" THEN Advance ELSE Goto("password")
    \/ /\ Runs("bootloader_password", "password")
       /\ \E secret \in Secret(Item) : Accepted(secret) /\ (Advance \/ Fail)

\* rhsm_register_from_answers tries credentials of the answers file, once.
Answered(item) == \A key \in {item.first, item.secret} :
                    key # "" /\ answers[key] \notin {"", Missing}

\* Bug: a blank answer is all there is.
Credentials_File(item) == Secret(item)

\* A blank answer is asked for again at the console.
Credentials(item) ==
    IF Secret(item) = {""} THEN Passphrases \cup {""} ELSE Secret(item)

\* Preset credentials are tried once too, asked ones until they are accepted.
Registration ==
    \/ /\ Runs("redhat_registration", "item")
       /\ \/ Fail
          \/ ~Answered(Item) /\ Item.ask /\ Goto("credentials")
          \/ (Answered(Item) \/ ~Item.ask) /\ Goto("repos")
    \/ /\ Runs("redhat_registration", "credentials")
       /\ \E secret \in Credentials(Item) : Accepted(secret) /\ Goto("repos")
    \/ Runs("redhat_registration", "repos") /\ (Advance \/ Fail)

WaitForEnter == Runs("wait_for_enter", "item") /\ Advance

CustomScript ==
    /\ Runs("custom_script", "item")
    /\ \/ \E value \in First(Item) : (value # "" \/ ~Item.ask) /\ Advance
       \/ Fail

-----------------------------------------------------------------------------
(* The devices of an item about LUKS *)

Opens(d, secret) == d \in Containers /\ keys[d][secret] > 0

\* discover_luks_devices: the containers crypttab names, or the only one there is.
Found == IF listed # {} THEN listed ELSE Containers

Ambiguous == listed = {} /\ Cardinality(Containers) > 1

\* An answer other than yes turns autodetection off; without a device the list of
\* devices is then empty.
NamedDevices(item) ==
    IF item.device = "" THEN {""} ELSE Ask(item.first, Devices)

\* No device at all skips the item.
Take(devices) ==
    IF devices = {} THEN Advance
    ELSE /\ todo' = devices /\ step' = "next"
         /\ UNCHANGED <<stage, pos, dev, known, fresh, disk>>

ChooseDevices ==
    \E flag \in Ask(Item.flag, {"yes", "no"}) :
        \/ flag = "yes" /\ Ambiguous /\ Fail
        \/ flag = "yes" /\ ~Ambiguous /\ Take(Found)
        \/ flag # "yes" /\ \E d \in NamedDevices(Item) : Take({d} \ {""})

-----------------------------------------------------------------------------
(* Setting a LUKS password *)

RotateDevices == Runs("luks_rotate", "item") /\ ChooseDevices

\* The build-time passphrase is tried before anyone is asked.
RotateNext ==
    /\ Runs("luks_rotate", "next")
    /\ \/ todo = {} /\ Advance
       \/ \E d \in todo :
            /\ todo' = todo \ {d} /\ dev' = d
            /\ known' = IF Opens(d, "build") THEN "build" ELSE ""
            /\ step' = IF Opens(d, "build") THEN "new" ELSE "current"
            /\ UNCHANGED <<stage, pos, fresh, disk>>

\* The current password has no answer key.
RotateCurrent ==
    /\ Runs("luks_rotate", "current")
    /\ \E secret \in Passphrases :
        /\ Opens(dev, secret)
        /\ known' = secret /\ step' = "new"
    /\ UNCHANGED <<stage, pos, todo, dev, fresh, disk>>

\* Two passphrases are told apart.
RotateNew ==
    /\ Runs("luks_rotate", "new")
    /\ \E secret \in Secret(Item) \cap (Passphrases \cup {""}) :
        Accepted(secret) /\ fresh' = secret
    /\ step' = "add"
    /\ UNCHANGED <<stage, pos, todo, dev, known, disk>>

\* cryptsetup luksAddKey.
RotateAdd ==
    /\ Runs("luks_rotate", "add")
    /\ \/ /\ keys' = [keys EXCEPT ![dev][fresh] = keys[dev][fresh] + 1]
          /\ step' = "remove"
          /\ UNCHANGED <<stage, pos, todo, dev, known, fresh, aware>>
       \/ Fail

\* cryptsetup luksRemoveKey takes one slot the passphrase opens.
RotateRemove ==
    /\ Runs("luks_rotate", "remove")
    /\ \/ /\ keys' = [keys EXCEPT ![dev][known] = keys[dev][known] - 1]
          /\ step' = "next" /\ known' = "" /\ fresh' = ""
          /\ UNCHANGED <<stage, pos, todo, dev, aware>>
       \/ Fail

-----------------------------------------------------------------------------
(* Binding to the TPM *)

\* Without clevis or cryptsetup the script fails; without a TPM device it ends, with
\* success and without the items that follow.
TpmDevices ==
    /\ Runs("tpm_integration", "item")
    /\ \/ Fail
       \/ ~tpm /\ stage' = "ended" /\ UNCHANGED <<place, disk>>
       \/ tpm /\ ChooseDevices

\* A device that is not LUKS is passed over.
TpmNext ==
    /\ Runs("tpm_integration", "next")
    /\ \/ todo = {} /\ Goto("regenerate")
       \/ \E d \in todo :
            /\ todo' = todo \ {d} /\ dev' = d
            /\ step' = IF d \in Containers THEN "current" ELSE "next"
            /\ UNCHANGED <<stage, pos, known, fresh, disk>>

TpmCurrent ==
    /\ Runs("tpm_integration", "current")
    /\ \E secret \in Secret(Item) :
        /\ secret \in Passphrases /\ Opens(dev, secret)
        /\ known' = secret /\ step' = "bind"
    /\ UNCHANGED <<stage, pos, todo, dev, fresh, disk>>

\* Bug: the passphrase is dropped although no policy could be bound.
Unbound_Drops == "drop"

\* After the last policy failed the device keeps its passphrase.
Unbound == "next"

\* clevis luks bind, with up to three policies.
TpmBind ==
    /\ Runs("tpm_integration", "bind")
    /\ \/ /\ keys' = [keys EXCEPT ![dev]["tpm"] = keys[dev]["tpm"] + 1]
          /\ step' = "list"
          /\ UNCHANGED <<stage, pos, todo, dev, known, fresh, aware>>
       \/ Goto(Unbound)

TpmList == Runs("tpm_integration", "list") /\ (Goto("drop") \/ Fail)

TpmDrop ==
    /\ Runs("tpm_integration", "drop")
    /\ \/ /\ keys' = [keys EXCEPT ![dev][known] = keys[dev][known] - 1]
          /\ step' = "next" /\ known' = ""
          /\ UNCHANGED <<stage, pos, todo, dev, fresh, aware>>
       \/ Fail

\* Bug: the initramfs is left as it is.
TpmRegenerate_Skipped == Runs("tpm_integration", "regenerate") /\ (Advance \/ Fail)

\* dracut or update-initramfs, whichever the system has, once after all devices.
TpmRegenerate ==
    /\ Runs("tpm_integration", "regenerate")
    /\ (NextItem /\ aware' = TRUE) \/ Fail

-----------------------------------------------------------------------------
(* Export, restore, power *)

\* render_afterburner_script writes the items in their order.
Export ==
    /\ stage = "edit"
    /\ script' = [n \in DOMAIN Siblings |-> rows[Siblings[n]].item]
    /\ stage' = "off"
    /\ UNCHANGED <<web, machine, place, disk>>

\* The keys the items of the build name; the template has a blank value for each.
KeysOf(items) ==
    UNION {{items[n].first, items[n].secret, items[n].flag} : n \in DOMAIN items} \ {""}

Template(items) ==
    [key \in AnswerKeys |-> IF key \in KeysOf(items) THEN "" ELSE Missing]

\* A restore formats the containers anew and starts the script.
Restore ==
    /\ stage = "off"
    /\ stage' = "run"
    /\ answers' \in AnswerFiles \cup {Template(script)} /\ tpm' \in BOOLEAN /\ listed' \in SUBSET Containers
    /\ keys' = [d \in Containers |-> KS!Formatted] /\ aware' = FALSE
    /\ UNCHANGED <<web, script, place>>

\* The last line of the script.
Complete ==
    /\ stage = "run" /\ pos > Len(script)
    /\ stage' = "ended"
    /\ UNCHANGED <<place, disk>>

PowerOff ==
    /\ stage \in {"run", "ended", "failed"}
    /\ stage' = "off"
    /\ pos' = 1 /\ step' = "item" /\ todo' = {} /\ dev' = "" /\ known' = "" /\ fresh' = ""
    /\ UNCHANGED <<web, script, machine, disk>>

Run ==
    /\ \/ Hostname \/ LocalUser \/ AdJoin \/ StaticIp \/ Bootloader
       \/ Registration \/ WaitForEnter \/ CustomScript
       \/ RotateDevices \/ RotateNext \/ RotateCurrent \/ RotateNew
       \/ RotateAdd \/ RotateRemove
       \/ TpmDevices \/ TpmNext \/ TpmCurrent \/ TpmBind
       \/ TpmList \/ TpmDrop \/ TpmRegenerate
       \/ Complete
    /\ UNCHANGED <<web, script, machine>>

\* A script that is written does not change: editing ends with the export.
Editing == stage = "edit" /\ Edit /\ UNCHANGED <<stage, script, machine, place, disk>>

-----------------------------------------------------------------------------

Init ==
    /\ rows = <<>> /\ rejected = FALSE
    /\ stage = "edit" /\ script = <<>>
    /\ answers = [key \in AnswerKeys |-> Missing] /\ tpm = FALSE /\ listed = {}
    /\ pos = 1 /\ step = "item" /\ todo = {} /\ dev = "" /\ known = "" /\ fresh = ""
    /\ keys = [d \in Containers |-> KS!Formatted] /\ aware = FALSE

Next == Editing \/ Export \/ Restore \/ Run \/ PowerOff

\* bash goes on, and whoever is asked answers in the end; nobody has to edit, to
\* restore or to switch the machine off.
Fairness == WF_vars(Run)

Spec == Init /\ [][Next]_vars /\ Fairness

-----------------------------------------------------------------------------
(* Properties *)

\* Every variable has its type; a passphrase that is added or removed was accepted,
\* and the one removed opens the device.
TypeOK ==
    /\ DOMAIN rows \subseteq Ids
    /\ \A i \in DOMAIN rows : rows[i].order \in 1..OrderLimit /\ rows[i].item \in Items
    /\ rejected \in BOOLEAN
    /\ stage \in {"edit", "off", "run", "ended", "failed"}
    /\ \A n \in DOMAIN script : script[n] \in Items
    /\ tpm \in BOOLEAN /\ aware \in BOOLEAN
    /\ listed \subseteq Containers
    /\ pos \in 1..(Len(script) + 1) /\ step \in Steps
    /\ todo \subseteq Devices \cup Range(answers)
    /\ dev \in Devices \cup Range(answers) \cup {""}
    /\ known \in Passphrases \cup {""} /\ fresh \in Passphrases \cup {""}
    /\ keys \in [Containers -> KS!Slots]
    /\ step \in {"add", "remove"} => fresh # ""
    /\ step \in {"add", "remove", "bind", "list", "drop"} => known # "" /\ Opens(dev, known)

\* Key slots change as KeySlots promises: none is removed before another one opens
\* the container, wherever the script stops.
KeepsAKey == KS!KSpec

\* What opens a container when the machine starts: a passphrase, or the TPM through
\* an initramfs that has clevis.
Bootable(d) == \/ \E secret \in Passphrases : Opens(d, secret)
               \/ Opens(d, "tpm") /\ tpm /\ aware

\* Between two items, and when the script ends, every container has exactly one key
\* and the machine starts with it; only a missing TPM ends the script before the
\* last item.
ItemsLeaveOneKey ==
    /\ stage = "ended" \/ (stage = "run" /\ step = "item") =>
        \A d \in Containers : KS!Total(keys[d]) = 1 /\ Bootable(d)
    /\ stage = "ended" /\ pos \in DOMAIN script =>
        script[pos].type = "tpm_integration" /\ ~tpm

\* A question that is asked again for ever: the answers file gives the wrong
\* password or none, or no passphrase opens the device.
AskedInVain ==
    /\ stage = "run" /\ pos \in DOMAIN script
    /\ \/ step \in {"password", "new"} /\ Secret(Item) = {""}
       \/ step = "current" /\ Item.type = "luks_rotate"
            /\ ~\E secret \in Passphrases : Opens(dev, secret)
       \/ step = "current" /\ Item.type = "tpm_integration"
            /\ ~\E secret \in Secret(Item) \ {""} : Opens(dev, secret)

\* The file answers every question of an item that finds its devices itself.
Unattended(item) ==
    /\ item.auto
    /\ item.flag # "" /\ answers[item.flag] = "yes"
    /\ item.secret # "" /\ answers[item.secret] \in Passphrases

\* A profile that sets the LUKS password and then binds the TPM runs to its end on
\* its own when the file answers the questions of the first item: the two share their
\* answer keys (_sync_shared_luks_tpm_answer_keys).
RotateThenBind ==
    /\ [n \in DOMAIN script |-> script[n].type] = <<"luks_rotate", "tpm_integration">>
    /\ Unattended(script[1]) /\ script[2].auto
    => ~AskedInVain

\* No edit fails on the unique order of items (_resequence_orders).
EditsApply == ~rejected

\* The script stops, or asks a question in vain; nothing else holds it up.
StopsOrAsks == stage = "run" ~> (stage # "run" \/ AskedInVain)
=============================================================================
