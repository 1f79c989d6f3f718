---- MODULE Settings ----
(***************************************************************************)
(* The COMFYUI_CURU_AUTH_OIDC_* variables of the environment, and what     *)
(* resolve_oidc_config and resolve_resource_server_config of oidc.py make  *)
(* of them: nothing, an error that is logged, an exception of another type *)
(* or a configuration.                                                     *)
(*                                                                         *)
(* A setting is the value after _split: a list or a set of names.  A name  *)
(* that is compared without its capital letters is kept with its form.     *)
(***************************************************************************)
EXTENDS SequencesExt

CONSTANTS
    Unset,      \* a variable that is absent or empty; str.strip() to nothing
    Name,       \* people and domains at the provider: sub, email and hd values
    Scope       \* scopes other than "openid"

\* The URL of the issuer: https, http on loopback, http elsewhere, or one that
\* urlsplit refuses with a ValueError, as it does "https://[idp".
Issuer == {"https", "loopback", "http", "broken"}

\* An entry of the list of redirect URIs: a URL of one of two origins that ends in
\* the path of the callback, one with another path, or no http URL with a host,
\* which may hold letters outside ASCII.
RedirectUri == {"home", "away", "wrongpath", "nourl", "foreign"}

\* The audience of access tokens: a URI of the operator's, the client id, or a
\* variable whose bytes are not UTF-8.
Audience == {"api", "us", "bytes"}

Written == [name : Name, small : BOOLEAN]

ASSUME SettingsAssumption == Unset \notin Written

Environment ==
    [issuer : Issuer \cup {Unset}, client : BOOLEAN,
     redirect : Seq(RedirectUri) \cup {Unset},
     subjects : SUBSET Name, emails : SUBSET Written, domain : Written \cup {Unset},
     any : {"true", "TRUE", "yes", Unset}, scopes : Seq(Scope \cup {"openid"}),
     audience : Audience \cup {Unset}, required : SUBSET Scope]

----------------------------------------------------------------------------
(* Reading a setting                                                       *)

\* str.lower().
Lower(w) == [w EXCEPT !.small = TRUE]

\* tuple(dict.fromkeys(s)): each item once, at its first place.
Distinct(s) ==
    FoldLeft(LAMBDA kept, item : IF Contains(kept, item) THEN kept ELSE Append(kept, item),
             <<>>, s)

\* urlsplit raises ValueError, which is_safe_url does not catch.
UrlRaises(url) == url = "broken"

IsSafeUrl(url) == url \in {"https", "loopback"}

\* _origin_key catches the ValueError: a broken entry is a bad one.
GoodRedirect(uri) == uri \in {"home", "away"}

\* Mutant: the allowlist keeps the capital letters of the operator.
AllowlistAsWritten(e) ==
    [any |-> e.any \in {"true", "TRUE"}, subjects |-> e.subjects,
     emails |-> e.emails, domain |-> e.domain]

Allowlist(e) ==
    [any |-> e.any \in {"true", "TRUE"}, subjects |-> e.subjects,
     emails |-> {Lower(m) : m \in e.emails},
     domain |-> IF e.domain = Unset THEN Unset ELSE Lower(e.domain)]

IsEmpty(list) ==
    ~list.any /\ list.subjects = {} /\ list.emails = {} /\ list.domain = Unset

\* _scopes: openid first, and the default when none is set.
LoginScopes(s) ==
    IF s = <<>> THEN <<"openid", "profile", "email">> ELSE Distinct(<<"openid">> \o s)

----------------------------------------------------------------------------
(* What a resolver does: "off" returns None, "error" raises                *)
(* OIDCConfigError, "raises" any other exception, "on" returns a           *)
(* configuration.                                                          *)

Outcome == {"off", "error", "raises", "on"}

BadRedirects(s) == {i \in DOMAIN s : ~GoodRedirect(s[i])}

\* The loop of _redirect_uris ends at the first bad entry and names it in the error.
FirstBadRedirect(s) ==
    s[CHOOSE i \in BadRedirects(s) : \A j \in BadRedirects(s) : i <= j]

\* Mutant: the list of redirect URIs is unpacked before it is looked at.
RedirectsUnpacked(s) ==
    IF s = <<>> THEN "raises" ELSE IF BadRedirects(s) = {} THEN "on" ELSE "error"

\* _redirect_uris, for a setting with at least one character.
RedirectsOutcome(s) == IF s # <<>> /\ BadRedirects(s) = {} THEN "on" ELSE "error"

\* resolve_oidc_config.  The client id and the client secret are looked at together.
LoginOutcome(e) ==
    IF e.issuer = Unset \/ ~e.client \/ e.redirect = Unset THEN "off"
    ELSE IF UrlRaises(e.issuer) THEN "raises"
    ELSE IF ~IsSafeUrl(e.issuer) \/ IsEmpty(Allowlist(e)) THEN "error"
    ELSE RedirectsOutcome(e.redirect)

LoginConfig(e) ==
    [issuer |-> e.issuer, allowlist |-> Allowlist(e), redirects |-> Distinct(e.redirect),
     scopes |-> LoginScopes(e.scopes)]

\* resolve_resource_server_config.
TokenOutcome(e) ==
    IF e.audience = Unset THEN IF e.required # {} THEN "error" ELSE "off"
    ELSE IF e.issuer = Unset THEN "error"
    ELSE IF UrlRaises(e.issuer) THEN "raises"
    ELSE IF IsSafeUrl(e.issuer) THEN "on" ELSE "error"

TokenConfig(e) ==
    [issuer |-> e.issuer, audience |-> e.audience, required |-> e.required]
====
