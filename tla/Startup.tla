------------------------------- MODULE Startup -------------------------------
(***************************************************************************)
(* main of carta-ctl, up to ListenAndServe: the configuration is put       *)
(* together, what the mode of authentication needs is set up, and the      *)
(* endpoints are registered.  A step that fails ends the program, and an   *)
(* operator may start it again, with another configuration.                *)
(***************************************************************************)
EXTENDS Naturals, Sequences

CONSTANTS
  Absent,  \* a source that says nothing of a key
  Givens   \* what --override, the flag, the environment and the file may say
           \* of auth_mode: sequences of values, in this order

Modes == {"none", "pam", "oidc", "both"}

ASSUME GivensAssumption ==
  Givens \subseteq Seq(Modes \cup {"unknown", Absent}) /\ Absent \notin Modes \cup {"unknown"}

VARIABLES
  stage,     \* where main is, or "ended"
  mode,      \* cfg.Controller.AuthMode
  ready,     \* what main has set up: the JWT keys, pamAuth, oidcAuth
  served     \* the endpoints that are registered

startVars == <<stage, mode, ready, served>>

Parts == {"keys", "pam", "oidc"}
Endpoints == {"app", "login", "pam_login", "oidc_login", "oidc_callback",
              "refresh", "logout", "config"}

StartTypeOK ==
  /\ stage \in {"loading", "auth", "routes", "serving", "ended"}
  /\ mode \in Modes \cup {"unknown"}
  /\ ready \subseteq Parts
  /\ served \subseteq Endpoints

StartupInit ==
  /\ stage = "loading"
  /\ mode = "none"
  /\ ready = {}
  /\ served = {}

(* A value that is Set goes before a flag that was given, then come the    *)
(* environment, the file and the default.  The default of the flag is      *)
(* never asked for, since setDefaults has one for every key.               *)
Decides(given, i) == given[i] # Absent /\ \A j \in 1..(i - 1) : given[j] = Absent

Effective(given) ==
  IF \E i \in DOMAIN given : Decides(given, i)
  THEN given[CHOOSE i \in DOMAIN given : Decides(given, i)]
  ELSE "none"

Load ==
  /\ stage = "loading"
  /\ \E given \in Givens : mode' = Effective(given)
  /\ stage' = "auth"
  /\ UNCHANGED <<ready, served>>

Exit ==
  /\ stage' = "ended"
  /\ mode' = "none"
  /\ ready' = {}
  /\ served' = {}

(* A file that was named cannot be read, an override is no key:value, a    *)
(* value has the wrong type, the log level does not exist.                 *)
LoadFails ==
  /\ stage = "loading"
  /\ Exit

(* Mutant: mode both sets up one of its two ways. *)
Needs_pamOnly(m) ==
  CASE m = "none" -> {}
    [] m = "oidc" -> {"keys", "oidc"}
    [] OTHER -> {"keys", "pam"}

(* The cases of the switch on the mode. *)
Needs(m) ==
  CASE m = "none" -> {}
    [] m = "pam" -> {"keys", "pam"}
    [] m = "oidc" -> {"keys", "oidc"}
    [] OTHER -> Parts

SetUpAuth ==
  /\ stage = "auth"
  /\ mode \in Modes
  /\ ready' = Needs(mode)
  /\ stage' = "routes"
  /\ UNCHANGED <<mode, served>>

(* The mode is unknown, a key or an age of a token is no good, PAM is not  *)
(* compiled in, an OIDC setting is missing or its provider out of reach.   *)
SetUpFails ==
  /\ stage = "auth"
  /\ mode # "none"
  /\ Exit

PamRoutes == IF "pam" \in ready /\ mode \in {"pam", "both"} THEN {"pam_login"} ELSE {}

OidcRoutes ==
  IF "oidc" \in ready /\ mode \in {"oidc", "both"}
  THEN {"oidc_login", "oidc_callback"} ELSE {}

LoginRoutes == IF mode # "none" THEN {"login"} ELSE {}

(* All but three are registered only with a directory of the frontend. *)
RegisterRoutes ==
  /\ stage = "routes"
  /\ served' \in
       {{"refresh", "logout", "config"} \cup frontend :
          frontend \in {{}, {"app"} \cup LoginRoutes \cup PamRoutes \cup OidcRoutes}}
  /\ stage' = "serving"
  /\ UNCHANGED <<mode, ready>>

(* The database cannot be opened, the frontend's directory is none, the    *)
(* address is taken; later on, the listener fails.                         *)
ServeFails ==
  /\ stage \in {"routes", "serving"}
  /\ Exit

Restart ==
  /\ stage = "ended"
  /\ stage' = "loading"
  /\ UNCHANGED <<mode, ready, served>>

StartupNext ==
  \/ Load
  \/ LoadFails
  \/ SetUpAuth
  \/ SetUpFails
  \/ RegisterRoutes
  \/ ServeFails
  \/ Restart

-----------------------------------------------------------------------------
(* What the login page of the mode has a form or a button for: showPAM and *)
(* showOIDC of LoginPageHandler, which looks at the mode once more.        *)
Offered ==
  (IF mode \in {"pam", "both"} THEN {"pam_login"} ELSE {}) \cup
  (IF mode \in {"oidc", "both"} THEN {"oidc_login", "oidc_callback"} ELSE {})

(* main looks at the mode in a switch that sets up, and again where it     *)
(* registers the endpoints, and the login page decides by itself what to   *)
(* offer: what a page that is served offers is served, too, and the keys   *)
(* its tokens are signed with have been read.                              *)
LoginOffersWork ==
  stage = "serving" /\ "login" \in served => Offered \subseteq served /\ "keys" \in ready
=============================================================================
