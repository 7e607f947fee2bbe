------------------------- MODULE MCAfterburnerScript ------------------------
(* Items, answers and devices for TLC. *)
EXTENDS AfterburnerScript

Blank(type) == [type |-> type, first |-> "", secret |-> "", flag |-> "", preset |-> {},
                device |-> "", auto |-> FALSE, ask |-> FALSE]

Keyed(type) == [Blank(type) EXCEPT !.first = "name", !.secret = "k1"]

MCPosted ==
    { [Keyed("hostname") EXCEPT !.secret = ""], Keyed("local_user"),
      [Keyed("ad_join") EXCEPT !.preset = {"first", "rest"}],
      [Blank("static_ip") EXCEPT !.preset = {"rest"}],
      Blank("static_ip"),
      [Blank("bootloader_password") EXCEPT !.preset = {"first"}],
      [Keyed("redhat_registration") EXCEPT !.ask = TRUE],
      [Blank("redhat_registration") EXCEPT !.preset = {"userpass"}],
      [Blank("wait_for_enter") EXCEPT !.preset = {"first"}],
      Keyed("custom_script") }
    \cup
    { [Blank(type) EXCEPT !.secret = key, !.auto = TRUE, !.flag = "flag"] :
        type \in LuksTypes, key \in {"k1", "k2"} }
    \cup
    { [Blank("luks_rotate") EXCEPT !.auto = TRUE],
      [Blank("tpm_integration") EXCEPT !.auto = TRUE, !.device = "plain"],
      [Blank("luks_rotate") EXCEPT !.device = "sda3", !.first = "device"] }

\* Profiles of up to two items.
MCIds == {1, 2}

Nothing == [key \in AnswerKeys |-> Missing]

\* No file, and files with values that fit and values that do not.
MCAnswerFiles ==
    { Nothing,
      [Nothing EXCEPT !["name"] = "x", !["k1"] = "new", !["k2"] = "new",
                      !["flag"] = "yes", !["device"] = "sda3"],
      [Nothing EXCEPT !["k1"] = "new", !["k2"] = "build", !["flag"] = "yes"],
      [Nothing EXCEPT !["k1"] = "build", !["k2"] = "new", !["flag"] = "", !["device"] = ""] }

\* Of the profiles that give the same script one is exported.
MCExports ==
    stage = "edit" /\ stage' = "off" =>
        ~rejected /\ \A i \in DOMAIN rows : rows[i].order = i
=============================================================================
