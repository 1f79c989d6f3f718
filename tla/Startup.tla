---- MODULE Startup ----
(***************************************************************************)
(* The import of the node by ComfyUI: __init__.py with                     *)
(* resolve_persistent_credential of gate.py.  It chooses the credential,   *)
(* writes it to its file, prints it, reads the settings, prints what is    *)
(* wrong with them, installs the gate and adds the routes.  The process    *)
(* may be stopped between any two steps, the storage may fail, the console *)
(* may refuse a text or go away, and each start may come with other        *)
(* variables in its environment.                                           *)
(*                                                                         *)
(* ComfyUI catches an exception that leaves the import, skips the node and *)
(* serves its routes without it.                                           *)
(***************************************************************************)
EXTENDS Settings

CONSTANTS
    Chosen,        \* credentials an operator sets, as written in the variable
    Generated,     \* credentials that generate_credential gives
    Trim,          \* Trim[c]: str.strip() of a credential, Unset when that is empty
    OutOfLatin1,   \* credentials that latin-1 cannot encode
    OutOfUtf8,     \* of those, the ones UTF-8 cannot: the variable held other bytes
    NotUtf8,       \* the content of a file that is not UTF-8
    Environments,  \* the settings an operator may start with
    FirstFiles,    \* what the file may hold before the first start
    Consoles,      \* per console, the texts that its encoding cannot write
    ConsoleBreaks  \* whether the reader of the console may go away

Credential == Chosen \cup Generated

\* open() truncates before write(): Unset stands for no file and for an empty one.
File == Credential \cup {Unset, NotUtf8}

\* What the import prints, besides words of its own: "plain" stands for those, which
\* only a console refuses whose other end is gone.
Text == Credential \cup Audience \cup RedirectUri \cup {"plain"}

ASSUME StartupAssumption ==
    /\ Unset \notin Credential \cup {NotUtf8}
    /\ NotUtf8 \notin Credential
    /\ Trim \in [Credential -> Credential \cup {Unset}]
    /\ \A c \in Generated : Trim[c] = c
    /\ OutOfUtf8 \subseteq OutOfLatin1
    /\ Generated \cap OutOfLatin1 = {}
    /\ Environments \subseteq Environment
    /\ FirstFiles \subseteq File
    /\ Consoles \subseteq SUBSET Text
    /\ ConsoleBreaks \in BOOLEAN

VARIABLES
    at,          \* how far the start came
    env,         \* the OIDC settings of this start
    pinned,      \* COMFYUI_CURU_AUTH_TOKEN of this start
    console,     \* the texts for which print raises, during an import
    credential,  \* the credential of this start, Unset before it is resolved
    file,        \* user/default/comfyui_curu_auth/credential
    login,       \* the configuration of the OIDC routes, or Unset when they are not there
    tokens,      \* _resource_server: the configuration for access tokens, or Unset
    last,        \* history: the credential that a start resolved last
    trouble      \* history: a fault or a stop came between that credential and its file

startupVars == <<at, env, pinned, console, credential, file, login, tokens, last, trouble>>

\* The places between two steps, and ComfyUI serving with and without the gate.
At == {"down", "resolve", "open", "write", "print", "install", "routes", "gated", "ungated"}

\* print(..., flush=True) raises UnicodeEncodeError or, with nobody at the other end,
\* OSError.  Every text comes with words of the import's own.
Refuses(text) == text \in console \/ "plain" \in console

----------------------------------------------------------------------------
(* The credential                                                          *)

\* The process starts, with the variables that the operator gave it.
Start ==
    /\ at = "down"
    /\ at' = "resolve"
    /\ env' \in Environments
    /\ pinned' \in Chosen \cup {Unset}
    /\ console' \in Consoles
    /\ UNCHANGED <<credential, file, login, tokens, last, trouble>>

\* An exception leaves the import: what was done stays done.
Escape ==
    /\ at' = "ungated"
    /\ UNCHANGED <<env, pinned, console, credential, login, tokens, last>>

\* Mutant: a credential from the variable is not written to the file.
ResolvedUnwritten(c) ==
    /\ at' = IF pinned = Unset THEN "open" ELSE "print"
    /\ credential' = c
    /\ last' = c
    /\ UNCHANGED <<env, pinned, console, file, login, tokens>>

Resolved(c) ==
    /\ at' = "open"
    /\ credential' = c
    /\ last' = c
    /\ UNCHANGED <<env, pinned, console, file, login, tokens>>

\* Mutant: the file is read with errors="replace".
PersistedReplaced ==
    IF file = NotUtf8 THEN file ELSE IF file \in Credential THEN Trim[file] ELSE Unset

\* _read_persisted_credential: "value or None" after strip().
Persisted == IF file \in Credential THEN Trim[file] ELSE Unset

\* The variable wins, also when it holds nothing but spaces.
ResolvePinned ==
    /\ at = "resolve"
    /\ pinned # Unset
    /\ Resolved(pinned)
    /\ UNCHANGED trouble

ResolvePersisted ==
    /\ at = "resolve"
    /\ pinned = Unset
    /\ Persisted # Unset
    /\ Resolved(Persisted)
    /\ UNCHANGED trouble

\* Reading a file that is there may raise OSError, and is then as good as no file.
\* token_urlsafe(32) gives no value twice, so neither the one in the file nor the last.
ResolveGenerated ==
    /\ at = "resolve"
    /\ pinned = Unset
    /\ \E c \in Generated \ {file, last} : Resolved(c)
    /\ trouble' = (trouble \/ Persisted # Unset)

\* UnicodeDecodeError is a ValueError, and only OSError is caught.
ResolveRaises ==
    /\ at = "resolve"
    /\ pinned = Unset
    /\ file = NotUtf8
    /\ Escape
    /\ UNCHANGED <<file, trouble>>

\* mkdir and open("w"), which truncates the file, or an OSError.
Open ==
    /\ at = "open"
    /\ \/ /\ at' = "write"
          /\ file' = Unset
          /\ UNCHANGED trouble
       \/ /\ at' = "print"
          /\ trouble' = TRUE
          /\ UNCHANGED file
    /\ UNCHANGED <<env, pinned, console, credential, login, tokens, last>>

\* write_text, or an OSError when the file cannot grow.
Write ==
    /\ at = "write"
    /\ credential \notin OutOfUtf8
    /\ at' = "print"
    /\ \/ file' = credential /\ trouble' = FALSE
       \/ trouble' = TRUE /\ UNCHANGED file
    /\ UNCHANGED <<env, pinned, console, credential, login, tokens, last>>

\* UnicodeEncodeError, after open() truncated the file.
WriteRaises ==
    /\ at = "write"
    /\ credential \in OutOfUtf8
    /\ Escape
    /\ trouble' = TRUE
    /\ UNCHANGED file

\* The credential for the operator, after it is in its file.
ShowCredential ==
    /\ at = "print"
    /\ ~Refuses(credential)
    /\ at' = "install"
    /\ UNCHANGED <<env, pinned, console, credential, file, login, tokens, last, trouble>>

ShowRaises ==
    /\ at = "print"
    /\ Refuses(credential)
    /\ Escape
    /\ UNCHANGED <<file, trouble>>

----------------------------------------------------------------------------
(* The settings and the gate                                               *)

\* The error of the login names the first bad redirect URI and no other setting.
LoginError(e) ==
    IF IsSafeUrl(e.issuer) /\ ~IsEmpty(Allowlist(e)) /\ BadRedirects(e.redirect) # {}
    THEN FirstBadRedirect(e.redirect) ELSE "plain"

\* What the two halves print before the gate is there: their errors and the audience.
ShownBeforeTheGate(e) ==
    (IF LoginOutcome(e) = "error" THEN {LoginError(e)} ELSE {})
    \cup (CASE TokenOutcome(e) = "error" -> {"plain"}
            [] TokenOutcome(e) = "on" -> {e.audience}
            [] OTHER -> {})

\* An OIDCConfigError is caught and leaves its half off; another exception is not, also
\* not one of a print, and build_gate_middleware raises for a credential that latin-1
\* cannot encode.
InstallRaises ==
    \/ LoginOutcome(env) = "raises"
    \/ TokenOutcome(env) = "raises"
    \/ \E text \in ShownBeforeTheGate(env) : Refuses(text)
    \/ credential \in OutOfLatin1

\* Both resolvers and the middleware: no stop in between can be seen.
Install ==
    /\ at = "install"
    /\ ~InstallRaises
    /\ at' = "routes"
    /\ tokens' = IF TokenOutcome(env) = "on" THEN TokenConfig(env) ELSE Unset
    /\ UNCHANGED <<env, pinned, console, credential, file, login, last, trouble>>

InstallEscapes ==
    /\ at = "install"
    /\ InstallRaises
    /\ Escape
    /\ UNCHANGED <<file, trouble>>

\* The login form, then a print, then the OIDC routes: an exception of the print leaves
\* the import too, and the gate is on without these routes.  No print follows.
AddRoutes ==
    /\ at = "routes"
    /\ at' = "gated"
    /\ login' = IF LoginOutcome(env) = "on" /\ ~Refuses("plain") THEN LoginConfig(env) ELSE Unset
    /\ console' = {}
    /\ UNCHANGED <<env, pinned, credential, file, tokens, last, trouble>>

\* The program that reads the console ends while the import runs.
ConsoleGoes ==
    /\ ConsoleBreaks
    /\ at \in {"resolve", "open", "write", "print", "install", "routes"}
    /\ console' = console \cup {"plain"}
    /\ UNCHANGED <<at, env, pinned, credential, file, login, tokens, last, trouble>>

\* A crash, or the end of the process.  Only the file and the history stay.
Stop ==
    /\ at # "down"
    /\ at' = "down"
    /\ console' = {}
    /\ credential' = Unset
    /\ login' = Unset
    /\ tokens' = Unset
    /\ trouble' = (trouble \/ at \in {"open", "write"})
    /\ UNCHANGED <<env, pinned, file, last>>

StartupInit ==
    /\ at = "down"
    /\ env \in Environments
    /\ pinned = Unset
    /\ console = {}
    /\ credential = Unset
    /\ file \in FirstFiles
    /\ login = Unset
    /\ tokens = Unset
    /\ last = Unset
    /\ trouble = FALSE

Starting ==
    \/ ResolvePinned \/ ResolvePersisted \/ ResolveGenerated \/ ResolveRaises
    \/ Open \/ Write \/ WriteRaises \/ ShowCredential \/ ShowRaises
    \/ Install \/ InstallEscapes \/ AddRoutes \/ ConsoleGoes

StartupNext == Start \/ Starting \/ Stop

StartupSpec == StartupInit /\ [][StartupNext]_startupVars

----------------------------------------------------------------------------
(* Properties                                                              *)

\* Every variable has its type.
StartupTypeOK ==
    /\ at \in At
    /\ env \in Environment
    /\ pinned \in Chosen \cup {Unset}
    /\ console \subseteq Text
    /\ credential \in Credential \cup {Unset}
    /\ file \in File
    /\ login \in {Unset} \cup {LoginConfig(e) : e \in {f \in Environments : LoginOutcome(f) = "on"}}
    /\ tokens \in {Unset} \cup {TokenConfig(e) : e \in {f \in Environments : TokenOutcome(f) = "on"}}
    /\ last \in Credential \cup {Unset}
    /\ trouble \in BOOLEAN

\* README:260: an error in the settings never stops the node, so ComfyUI never serves
\* without the gate.
GateIsOn == at # "ungated"

\* Everything that an operator may write and the import may print.
Showable(e) == {credential, e.audience} \cup (IF e.redirect = Unset THEN {} ELSE ToSet(e.redirect))

\* __init__.py:120-126: no mix of settings, no fault of the storage and no stop at any
\* moment leaves ComfyUI without the gate, but for a value that cannot be used: an issuer
\* that is no URL, a credential that no header can hold, which may also be an old one that
\* the file brings back, a file that is not UTF-8, and a setting that the console cannot
\* write, which is any setting once the reader of the console is gone.
OnlyUnusableValuesOpen ==
    at = "ungated" =>
        \/ env.issuer = "broken"
        \/ credential \in OutOfLatin1
        \/ pinned = Unset /\ file = NotUtf8
        \/ \E text \in Showable(env) : Refuses(text)

\* resolve_persistent_credential: a credential is stable across restarts.  A start
\* without COMFYUI_CURU_AUTH_TOKEN has the credential of the start before, but for
\* the spaces around it, unless the storage failed or a process stopped on its way to
\* the file.
CredentialIsKept ==
    (/\ at = "resolve"
     /\ at' = "open"
     /\ pinned = Unset
     /\ last # Unset
     /\ Trim[last] # Unset
     /\ ~trouble
     /\ ~trouble') => credential' = Trim[last]

CredentialKept == [][CredentialIsKept]_startupVars
====
