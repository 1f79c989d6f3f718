---- MODULE AdmissionProofs ----
(***************************************************************************)
(* What the start and the token rules guarantee for any credentials,       *)
(* settings, tokens and key sets, and for stops and faults at any step.    *)
(*                                                                         *)
(* The inductive invariant says what a step of the start may rely on: the  *)
(* file holds the last credential unless something came between the two,   *)
(* and the configurations are the ones of the settings of this start.      *)
(***************************************************************************)
EXTENDS Admission, FiniteSetTheorems, TLAPS

\* What the start resolved, and what it wrote.
CredentialFits ==
    /\ at \in {"open", "write", "print", "install", "routes", "gated"} => credential = last /\ credential # Unset
    /\ ~trouble /\ at \notin {"open", "write"} /\ last # Unset => file = last

\* The gate runs with the settings of this start, and only then with any.
SettingsFit ==
    /\ env \in Environments
    /\ login # Unset => LoginOutcome(env) = "on" /\ login = LoginConfig(env)
    /\ tokens # Unset => TokenOutcome(env) = "on" /\ tokens = TokenConfig(env)
    /\ at # "gated" => login = Unset
    /\ at \notin {"routes", "gated"} => tokens = Unset

StartupInv ==
    /\ StartupTypeOK
    /\ CredentialFits
    /\ SettingsFit
    /\ OnlyUnusableValuesOpen

\* A check runs in a started process only, and its verdict is the one of the rules.
CheckFits ==
    /\ at # "gated" => check = Idle
    /\ check \in {Idle} \cup Waiting \cup Judged
    /\ check # Idle =>
        IF check.path = "bearer" THEN tokens # Unset /\ BeforeTheKeys(check.token, tokens)
        ELSE login # Unset
    /\ check.step = "judged" =>
        check.accepted =
            IF check.path = "bearer"
            THEN AcceptsAccess(check.token, tokens, check.jwks, check.waited)
            ELSE AcceptsLogin(check.token, login, check.jwks, check.waited)

AdmissionInv == StartupInv /\ CheckFits

----------------------------------------------------------------------------
(* The start                                                               *)

\* The outcomes of the two resolvers, and when they are exceptions.
LEMMA OutcomesRaise ==
    ASSUME NEW e \in Environment, LoginOutcome(e) = "raises" \/ TokenOutcome(e) = "raises"
    PROVE  e.issuer = "broken"
BY DEF LoginOutcome, TokenOutcome, RedirectsOutcome, UrlRaises

LEMMA InitFits == StartupInit => StartupInv
BY StartupAssumption
   DEF StartupInit, StartupInv, StartupTypeOK, CredentialFits, SettingsFit,
       OnlyUnusableValuesOpen, At, File

LEMMA ResolvedFits ==
    ASSUME StartupInv, at = "resolve", NEW c \in Credential, Resolved(c),
           trouble' \in BOOLEAN
    PROVE  StartupInv'
BY StartupAssumption
   DEF StartupInv, StartupTypeOK, CredentialFits, SettingsFit,
       OnlyUnusableValuesOpen, At, Resolved

LEMMA EscapeFits ==
    ASSUME StartupInv, at \in {"resolve", "write", "print", "install"}, Escape,
           \/ env.issuer = "broken" \/ credential \in OutOfLatin1 \/ (pinned = Unset /\ file = NotUtf8)
           \/ \E text \in Showable(env) : Refuses(text),
           file' = file, trouble' \in {trouble, TRUE}, at = "write" => trouble'
    PROVE  StartupInv'
BY DEF StartupInv, StartupTypeOK, CredentialFits, SettingsFit,
       OnlyUnusableValuesOpen, At, Escape, Showable, Refuses

\* Naturals have a least one.
LEMMA LeastIndex ==
    ASSUME NEW S \in SUBSET Nat, S # {}
    PROVE  \E i \in S : \A j \in S : i <= j
<1> DEFINE R == {p \in Nat \X Nat : p[1] < p[2]}
<1>1. IsWellFoundedOn(R, Nat)
    BY NatLessThanWellFounded DEF OpToRel
<1>2. PICK i \in S : \A j \in S : <<j, i>> \notin R
    BY <1>1, WFMin
<1>3. ASSUME NEW j \in S PROVE i <= j
    <2>1. <<j, i>> \in Nat \X Nat /\ <<j, i>> \notin R
        BY <1>2
    <2>2. ~(j < i)
        BY <2>1
    <2> QED BY <2>2
<1> QED BY <1>3

\* What the import prints beside the credential is a setting of the operator's, or words
\* of its own, which only a console without a reader refuses.
LEMMA ShownIsShowable ==
    ASSUME NEW e \in Environment, NEW text \in ShownBeforeTheGate(e), Refuses(text)
    PROVE  \E shown \in Showable(e) : Refuses(shown)
<1>1. CASE "plain" \in console
    BY <1>1 DEF Refuses, Showable
<1>2. CASE "plain" \notin console
    <2>1. text \in console /\ text # "plain"
        BY <1>2 DEF Refuses
    <2>2. CASE LoginOutcome(e) = "error" /\ text = LoginError(e)
        <3>1. BadRedirects(e.redirect) # {} /\ text = FirstBadRedirect(e.redirect)
            BY <2>1, <2>2 DEF LoginError
        <3>2. e.redirect # Unset
            BY <2>2 DEF LoginOutcome
        <3>3. e.redirect \in Seq(RedirectUri)
            BY <3>2 DEF Environment
        <3>4. PICK i \in BadRedirects(e.redirect) : text = e.redirect[i]
            <4>1. BadRedirects(e.redirect) \subseteq Nat
                BY <3>3 DEF BadRedirects
            <4>2. \E i \in BadRedirects(e.redirect) : \A j \in BadRedirects(e.redirect) : i <= j
                BY <3>1, <4>1, LeastIndex
            <4> QED BY <3>1, <4>2 DEF FirstBadRedirect
        <3>5. text \in ToSet(e.redirect)
            BY <3>4 DEF BadRedirects, ToSet
        <3> QED BY <2>1, <3>2, <3>5 DEF Showable, Refuses
    <2>3. CASE TokenOutcome(e) = "on" /\ text = e.audience
        BY <2>1, <2>3 DEF Showable, Refuses
    <2> QED BY <2>1, <2>2, <2>3 DEF ShownBeforeTheGate, TokenOutcome
<1> QED BY <1>1, <1>2

LEMMA StartFits ==
    ASSUME StartupInv, Start PROVE StartupInv'
BY StartupAssumption
   DEF StartupInv, StartupTypeOK, CredentialFits, SettingsFit,
       OnlyUnusableValuesOpen, At, Start

LEMMA StopFits ==
    ASSUME StartupInv, Stop PROVE StartupInv'
BY DEF StartupInv, StartupTypeOK, CredentialFits, SettingsFit,
       OnlyUnusableValuesOpen, At, Stop

\* Each step of the import.
LEMMA StartingFits ==
    ASSUME StartupInv, Starting PROVE StartupInv'
<1> USE StartupAssumption
<1>1. CASE ResolvePinned
    <2>1. pinned \in Credential /\ at = "resolve" /\ Resolved(pinned) /\ trouble' \in BOOLEAN
        BY <1>1 DEF ResolvePinned, StartupInv, StartupTypeOK, Credential
    <2> QED BY <2>1, ResolvedFits
<1>2. CASE ResolvePersisted
    <2>1. Persisted \in Credential /\ at = "resolve" /\ Resolved(Persisted) /\ trouble' \in BOOLEAN
        BY <1>2 DEF ResolvePersisted, StartupInv, StartupTypeOK, Persisted
    <2> QED BY <2>1, ResolvedFits
<1>3. CASE ResolveGenerated
    <2>1. PICK c \in Generated \ {file, last} : Resolved(c)
        BY <1>3 DEF ResolveGenerated
    <2>2. c \in Credential /\ at = "resolve" /\ trouble' \in BOOLEAN
        BY <1>3 DEF ResolveGenerated, StartupInv, StartupTypeOK, Credential
    <2> QED BY <2>1, <2>2, ResolvedFits
<1>4. CASE ResolveRaises
    <2>1. at = "resolve" /\ Escape /\ pinned = Unset /\ file = NotUtf8 /\ file' = file /\ trouble' = trouble
        BY <1>4 DEF ResolveRaises
    <2> QED BY <2>1, EscapeFits
<1>5. CASE Open
    BY <1>5
       DEF Open, StartupInv, StartupTypeOK, CredentialFits, SettingsFit,
           OnlyUnusableValuesOpen, At, File
<1>6. CASE Write
    BY <1>6
       DEF Write, StartupInv, StartupTypeOK, CredentialFits, SettingsFit,
           OnlyUnusableValuesOpen, At, File
<1>7. CASE WriteRaises
    <2>1. at = "write" /\ Escape /\ credential \in OutOfLatin1 /\ file' = file /\ trouble' = TRUE
        BY <1>7 DEF WriteRaises
    <2> QED BY <2>1, EscapeFits
<1>8. CASE Install
    <2>1. env \in Environments /\ (TokenOutcome(env) = "on" => tokens' = TokenConfig(env))
          /\ (TokenOutcome(env) # "on" => tokens' = Unset)
        BY <1>8 DEF Install, StartupInv, SettingsFit
    <2>3. tokens' \in {Unset} \cup {TokenConfig(e) : e \in {f \in Environments : TokenOutcome(f) = "on"}}
        BY <2>1
    <2>4. StartupTypeOK'
        BY <1>8, <2>3 DEF Install, StartupInv, StartupTypeOK, At
    <2>5. SettingsFit'
        BY <1>8, <2>1 DEF Install, StartupInv, SettingsFit
    <2>6. (CredentialFits /\ OnlyUnusableValuesOpen)'
        BY <1>8 DEF Install, StartupInv, CredentialFits, OnlyUnusableValuesOpen
    <2> QED BY <2>4, <2>5, <2>6 DEF StartupInv
<1>9. CASE InstallEscapes
    <2>1. \/ env.issuer = "broken" \/ credential \in OutOfLatin1
          \/ \E text \in Showable(env) : Refuses(text)
        BY <1>9, OutcomesRaise, ShownIsShowable DEF InstallEscapes, InstallRaises, StartupInv, StartupTypeOK
    <2>2. at = "install" /\ Escape /\ file' = file /\ trouble' = trouble
        BY <1>9 DEF InstallEscapes
    <2> QED BY <2>1, <2>2, EscapeFits
<1>10. CASE ShowCredential
    BY <1>10
       DEF ShowCredential, StartupInv, StartupTypeOK, CredentialFits, SettingsFit,
           OnlyUnusableValuesOpen, At
<1>11. CASE ShowRaises
    <2>1. at = "print" /\ Escape /\ file' = file /\ trouble' = trouble
          /\ \E text \in Showable(env) : Refuses(text)
        BY <1>11 DEF ShowRaises, Showable
    <2> QED BY <2>1, EscapeFits
<1>12. CASE AddRoutes
    <2>1. /\ login' # Unset => LoginOutcome(env) = "on" /\ login' = LoginConfig(env)
          /\ env \in Environments
        BY <1>12 DEF AddRoutes, StartupInv, SettingsFit
    <2>2. login' \in {Unset} \cup {LoginConfig(e) : e \in {f \in Environments : LoginOutcome(f) = "on"}}
        BY <2>1
    <2>3. StartupTypeOK'
        BY <1>12, <2>2 DEF AddRoutes, StartupInv, StartupTypeOK, At
    <2>4. SettingsFit'
        BY <1>12, <2>1 DEF AddRoutes, StartupInv, SettingsFit
    <2>5. (CredentialFits /\ OnlyUnusableValuesOpen)'
        BY <1>12 DEF AddRoutes, StartupInv, CredentialFits, OnlyUnusableValuesOpen
    <2> QED BY <2>3, <2>4, <2>5 DEF StartupInv
<1>13. CASE ConsoleGoes
    BY <1>13
       DEF ConsoleGoes, Text, StartupInv, StartupTypeOK, CredentialFits, SettingsFit,
           OnlyUnusableValuesOpen
<1> QED BY <1>1, <1>2, <1>3, <1>4, <1>5, <1>6, <1>7, <1>8, <1>9, <1>10, <1>11, <1>12, <1>13
        DEF Starting

LEMMA StartupStutters ==
    ASSUME StartupInv, UNCHANGED startupVars PROVE StartupInv'
BY DEF startupVars, StartupInv, StartupTypeOK, CredentialFits, SettingsFit, OnlyUnusableValuesOpen,
       Showable, Refuses

----------------------------------------------------------------------------
(* The checks                                                              *)

\* The rules answer TRUE or FALSE, also for a configuration that is Unset.
LEMMA VerdictIsBoolean ==
    ASSUME NEW t \in Token, NEW config, NEW jwks, NEW waited
    PROVE  /\ AcceptsAccess(t, config, jwks, waited) \in BOOLEAN
           /\ AcceptsLogin(t, config, jwks, waited) \in BOOLEAN
BY DEF AcceptsAccess, AcceptsLogin

LEMMA PresentFits ==
    ASSUME AdmissionInv, NEW path \in Path, NEW t \in Token, Present(path, t)
    PROVE  AdmissionInv'
<1>1. StartupInv'
    BY StartupStutters DEF AdmissionInv, Present
<1>2. check' \in Waiting
    BY DEF Present, Waiting
<1>3. CheckFits'
    BY <1>2 DEF Present, CheckFits, startupVars, Idle, Path, BeforeTheKeys, Plain, AlgorithmIsAllowed
<1> QED BY <1>1, <1>3 DEF AdmissionInv

LEMMA JudgeFits ==
    ASSUME AdmissionInv, NEW jwks \in KeySets, NEW waited \in 0..ReadTime, Judge(jwks, waited)
    PROVE  AdmissionInv'
<1>1. StartupInv'
    BY StartupStutters DEF AdmissionInv, Judge
<1>2. check \in Waiting
    BY DEF Judge, AdmissionInv, CheckFits, Idle, Judged, Waiting
<1>3. check' \in Judged
    <2>1. jwks \in SUBSET Jwk /\ waited \in Nat
        BY AdmissionAssumption
    <2> QED BY <1>2, <2>1, VerdictIsBoolean DEF Judge, Waiting, Judged
<1>4. check.path \in Path /\ check'.path = check.path /\ check'.token = check.token
      /\ check'.step = "judged" /\ check'.jwks = jwks /\ check'.waited = waited
    BY <1>2 DEF Waiting, Judge
<1>5. at = "gated" /\ at' = at /\ tokens' = tokens /\ login' = login
    BY <1>2, <1>4 DEF AdmissionInv, CheckFits, Judge, startupVars, Waiting, Idle
<1>6. CheckFits'
    BY <1>2, <1>3, <1>4, <1>5
       DEF AdmissionInv, CheckFits, Judge, Waiting, Idle, BeforeTheKeys, AcceptsAccess, AcceptsLogin
<1> QED BY <1>1, <1>6 DEF AdmissionInv

LEMMA AdmissionStep ==
    ASSUME AdmissionInv, [AdmissionNext]_vars PROVE AdmissionInv'
<1>1. CASE (Start \/ Starting) /\ UNCHANGED check
    <2>1. StartupInv'
        BY <1>1, StartFits, StartingFits DEF AdmissionInv
    <2>2. at # "gated"
        BY <1>1 DEF Start, Starting, ResolvePinned, ResolvePersisted, ResolveGenerated,
                    ResolveRaises, Open, Write, WriteRaises, ShowCredential, ShowRaises,
                    Install, InstallEscapes, AddRoutes, ConsoleGoes
    <2>3. check = Idle /\ check' = Idle
        BY <1>1, <2>2 DEF AdmissionInv, CheckFits
    <2> QED BY <2>1, <2>3 DEF AdmissionInv, CheckFits, Idle
<1>2. CASE StopServing
    <2>1. StartupInv' /\ check' = Idle
        BY <1>2, StopFits DEF AdmissionInv, StopServing
    <2> QED BY <2>1 DEF AdmissionInv, CheckFits, Idle
<1>3. ASSUME NEW path \in Path, NEW t \in Token, Present(path, t) PROVE AdmissionInv'
    BY <1>3, PresentFits
<1>4. ASSUME NEW jwks \in KeySets, NEW waited \in 0..ReadTime, Judge(jwks, waited)
      PROVE  AdmissionInv'
    BY <1>4, JudgeFits
<1>5. CASE CheckEnds
    <2>1. StartupInv' /\ check' = Idle
        BY <1>5, StartupStutters DEF AdmissionInv, CheckEnds
    <2> QED BY <2>1 DEF AdmissionInv, CheckFits, Idle
<1>6. CASE UNCHANGED vars
    <2>1. StartupInv' /\ check' = check /\ at' = at /\ login' = login /\ tokens' = tokens
        BY <1>6, StartupStutters DEF AdmissionInv, vars, startupVars
    <2> QED BY <2>1 DEF AdmissionInv, CheckFits
<1>7. AccessTokens \subseteq Token /\ IdTokens \subseteq Token /\ {"bearer", "login"} \subseteq Path
    BY AdmissionAssumption DEF Path
<1> QED BY <1>1, <1>2, <1>3, <1>4, <1>5, <1>6, <1>7 DEF AdmissionNext

LEMMA AdmissionInvariant == AdmissionSpec => []AdmissionInv
<1>1. AdmissionInit => AdmissionInv
    BY InitFits DEF AdmissionInit, AdmissionInv, CheckFits, Idle
<1> QED BY <1>1, AdmissionStep, PTL DEF AdmissionSpec

----------------------------------------------------------------------------
(* Theorems                                                                *)

\* For any credentials, settings, tokens and keys, every variable keeps its type.
THEOREM AdmissionTypeCorrect == AdmissionSpec => []AdmissionTypeOK
<1>1. AdmissionInv => AdmissionTypeOK
    BY DEF AdmissionInv, StartupInv, CheckFits, AdmissionTypeOK
<1> QED BY <1>1, AdmissionInvariant, PTL

\* Whatever stops or fails between two steps of the import, ComfyUI is without the gate
\* only with a value that cannot be read, held in a header or printed.
THEOREM OnlyUnusableOpens == AdmissionSpec => []OnlyUnusableValuesOpen
<1>1. AdmissionInv => OnlyUnusableValuesOpen
    BY DEF AdmissionInv, StartupInv
<1> QED BY <1>1, AdmissionInvariant, PTL

\* A start without the variable finds the credential of the start before in the file.
THEOREM CredentialsAreKept == AdmissionSpec => CredentialKept
<1>1. AdmissionInv /\ [AdmissionNext]_vars => [CredentialIsKept]_startupVars
    <2> SUFFICES ASSUME AdmissionInv, [AdmissionNext]_vars,
                        at = "resolve", at' = "open", pinned = Unset, last # Unset,
                        Trim[last] # Unset, ~trouble, ~trouble'
                 PROVE  credential' = Trim[last]
        BY DEF CredentialIsKept
    <2>1. file = last /\ last \in Credential
        BY DEF AdmissionInv, StartupInv, StartupTypeOK, CredentialFits
    <2>2. Persisted = Trim[last]
        BY <2>1 DEF Persisted
    <2>3. ResolvePersisted \/ ResolveGenerated
        BY DEF AdmissionNext, vars, startupVars, Start, Starting, ResolvePinned, ResolveRaises, Escape,
               Open, Write, WriteRaises, ShowCredential, ShowRaises, Install, InstallEscapes, AddRoutes,
               ConsoleGoes, StopServing, Stop, Present, Judge, CheckEnds
    <2> QED BY <2>2, <2>3 DEF ResolvePersisted, ResolveGenerated, Resolved
<1> QED BY <1>1, AdmissionInvariant, PTL DEF AdmissionSpec, CredentialKept

\* What an accepted check says of the settings.
LEMMA AcceptedBySettings ==
    ASSUME AdmissionInv, NEW path \in Path, Accepted(path)
    PROVE  /\ check.token \in Token /\ check.jwks \in SUBSET Jwk /\ check.waited \in Nat
           /\ env \in Environment
           /\ path = "bearer" =>
                /\ TokenOutcome(env) = "on"
                /\ AcceptsAccess(check.token, TokenConfig(env), check.jwks, check.waited)
           /\ path = "login" =>
                /\ LoginOutcome(env) = "on"
                /\ AcceptsLogin(check.token, LoginConfig(env), check.jwks, check.waited)
<1>1. check \in Judged
    BY DEF Accepted, AdmissionInv, CheckFits, Idle, Waiting
<1>2. check # Idle /\ check.path = path /\ check.accepted /\ check.step = "judged"
    BY DEF Accepted, Idle
<1>3. env \in Environment
    BY DEF AdmissionInv, StartupInv, StartupTypeOK
<1>4. CASE path = "bearer"
    <2>1. tokens = TokenConfig(env) /\ TokenOutcome(env) = "on"
        BY <1>2, <1>4 DEF AdmissionInv, StartupInv, SettingsFit, CheckFits
    <2>2. AcceptsAccess(check.token, tokens, check.jwks, check.waited)
        BY <1>2, <1>4 DEF AdmissionInv, CheckFits
    <2> QED BY <1>1, <1>3, <1>4, <2>1, <2>2 DEF Judged
<1>5. CASE path = "login"
    <2>1. login = LoginConfig(env) /\ LoginOutcome(env) = "on"
        BY <1>2, <1>5 DEF AdmissionInv, StartupInv, SettingsFit, CheckFits
    <2>2. AcceptsLogin(check.token, login, check.jwks, check.waited)
        BY <1>2, <1>5 DEF AdmissionInv, CheckFits
    <2> QED BY <1>1, <1>3, <1>5, <2>1, <2>2 DEF Judged
<1> QED BY <1>4, <1>5 DEF Path

LEMMA SignatureIsByIssuer ==
    ASSUME NEW t \in Token, NEW jwks \in SUBSET Jwk, SignatureHolds(t, jwks)
    PROVE  SignedByIssuer(t, jwks)
BY DEF SignatureHolds, SignedByIssuer, Candidates, AlgorithmIsAllowed, AllowedAlgorithms

\* The allowlist permits a person exactly when the operator named it.
LEMMA PermitsTheNamed ==
    ASSUME NEW e \in Environment, NEW t \in Token
    PROVE  Permits(Allowlist(e), t) <=> Named(e, t)
<1> DEFINE list == Allowlist(e)
<1>1. list.any = (e.any \in {"true", "TRUE"}) /\ list.subjects = e.subjects
      /\ list.emails = {Lower(m) : m \in e.emails}
      /\ list.domain = IF e.domain = Unset THEN Unset ELSE Lower(e.domain)
    BY DEF Allowlist
<1>2. \A v, w \in Written : Lower(v) \in Written /\ (Lower(v) = Lower(w) <=> v.name = w.name)
    BY DEF Lower, Written
<1>3. e.emails \subseteq Written /\ e.domain \in Written \cup {Unset}
      /\ t.email \in Written \cup {Unset} /\ t.hd \in Written \cup {Unset}
    BY DEF Environment, Token
<1>4. t.email # Unset => (Lower(t.email) \in list.emails <=> \E m \in e.emails : m.name = t.email.name)
    BY <1>1, <1>2, <1>3
<1>5. list.domain # Unset /\ t.hd # Unset /\ Lower(t.hd) = list.domain
      <=> e.domain # Unset /\ t.hd # Unset /\ e.domain.name = t.hd.name
    BY <1>1, <1>2, <1>3, SettingsAssumption
<1> QED BY <1>1, <1>4, <1>5 DEF Permits, Named

\* A login gives a session to the people that the operator named and to nobody else.
THEOREM SessionsAreForTheNamed == AdmissionSpec => []OnlyTheNamedGetIn
<1>1. AdmissionInv => OnlyTheNamedGetIn
    <2> SUFFICES ASSUME AdmissionInv, Accepted("login")
                 PROVE  /\ env.client /\ env.issuer \in {"https", "loopback"}
                        /\ check.token.iss = env.issuer /\ check.token.nonce
                        /\ "us" \in check.token.aud
                        /\ check.token.azp = "us" \/ (check.token.aud = {"us"} /\ check.token.azp = Unset)
                        /\ check.waited <= check.token.exp + Leeway
                        /\ SignedByIssuer(check.token, check.jwks) /\ Named(env, check.token)
        BY DEF OnlyTheNamedGetIn
    <2>1. /\ check.token \in Token /\ check.jwks \in SUBSET Jwk /\ env \in Environment
          /\ LoginOutcome(env) = "on"
          /\ AcceptsLogin(check.token, LoginConfig(env), check.jwks, check.waited)
        BY AcceptedBySettings DEF Path
    <2>2. env.client /\ env.issuer \in {"https", "loopback"}
        BY <2>1 DEF LoginOutcome, IsSafeUrl
    <2>3. /\ Permits(Allowlist(env), check.token)
          /\ check.token.iss = env.issuer /\ check.token.nonce /\ "us" \in check.token.aud
          /\ check.waited <= check.token.exp + Leeway
        BY <2>1 DEF AcceptsLogin, RegistryAccepts, LoginConfig
    <2>4. SignedByIssuer(check.token, check.jwks)
        BY <2>1, SignatureIsByIssuer DEF AcceptsLogin
    <2>5. check.token.azp = "us" \/ (check.token.aud = {"us"} /\ check.token.azp = Unset)
        <3> SUFFICES ASSUME check.token.azp # "us" PROVE check.token.aud = {"us"} /\ check.token.azp = Unset
            OBVIOUS
        <3>1. ~(Cardinality(check.token.aud) > 1) /\ check.token.azp = Unset
            BY <2>1 DEF AcceptsLogin, IssuedToUs
        <3>2. IsFiniteSet(check.token.aud)
            <4>1. IsFiniteSet({"api", "us", "other"})
                <5>1. IsFiniteSet({"api"} \cup {"us"})
                    BY FS_Singleton, FS_AddElement
                <5>2. IsFiniteSet(({"api"} \cup {"us"}) \cup {"other"})
                    BY <5>1, FS_AddElement
                <5>3. ({"api"} \cup {"us"}) \cup {"other"} = {"api", "us", "other"}
                    OBVIOUS
                <5> QED BY <5>2, <5>3
            <4> QED BY <2>1, <4>1, FS_Subset DEF Token
        <3>3. Cardinality(check.token.aud) = 1
            BY <2>3, <3>1, <3>2, FS_CardinalityType, FS_EmptySet
        <3> QED BY <2>3, <3>1, <3>2, <3>3, FS_Singleton
    <2> QED BY <2>1, <2>2, <2>3, <2>4, <2>5, PermitsTheNamed
<1> QED BY <1>1, AdmissionInvariant, PTL

\* A key that is the only one with its id is the one candidate of its tokens.
LEMMA OneKeyIsEnough ==
    ASSUME NEW t \in Token, NEW jwks \in SUBSET Jwk, SignedByIssuer(t, jwks), t.kid = t.signer,
           \A j, k \in jwks : j.kid = k.kid => j = k
    PROVE  SignatureHolds(t, jwks)
<1>1. PICK k \in jwks : k.kid = t.signer /\ k.alg = t.alg /\ k.use = "sig" /\ k.alg \notin {"none", "HS256"}
    BY DEF SignedByIssuer
<1>2. t.kid # Unset /\ k.kid = t.kid
    BY <1>1, RulesAssumption DEF Jwk
<1>3. Candidates(t, jwks) = {k}
    BY <1>1, <1>2 DEF Candidates
<1>4. Cardinality(Candidates(t, jwks)) = 1
    BY <1>3, FS_Singleton
<1>5. AlgorithmIsAllowed(t)
    BY <1>1 DEF AlgorithmIsAllowed, AllowedAlgorithms, Jwk, Alg
<1> QED BY <1>1, <1>3, <1>4, <1>5 DEF SignatureHolds

\* No named person is turned away because of how names are written or of a slow key read.
THEOREM TheNamedGetIn == AdmissionSpec => []NamedGetIn
<1>1. AdmissionInv => NamedGetIn
    <2> DEFINE t == check.token
    <2> SUFFICES ASSUME AdmissionInv, check.step = "judged", check.path = "login",
                        Named(env, t), SignedByIssuer(t, check.jwks), t.kid = t.signer,
                        \A j, k \in check.jwks : j.kid = k.kid => j = k,
                        t.complete, t.iss = env.issuer, t.aud = {"us"}, t.azp \in {Unset, "us"},
                        t.nonce, t.iat <= 0, t.nbf <= 0, check.waited < t.exp
                 PROVE  check.accepted
        BY DEF NamedGetIn
    <2>1. check \in Judged /\ check # Idle
        BY DEF AdmissionInv, CheckFits, Idle, Waiting
    <2>2. t \in Token /\ check.jwks \in SUBSET Jwk /\ check.waited \in Nat /\ env \in Environment
        BY <2>1 DEF Judged, AdmissionInv, StartupInv, StartupTypeOK
    <2>3. login = LoginConfig(env)
        BY <2>1 DEF AdmissionInv, StartupInv, SettingsFit, CheckFits
    <2>4. SignatureHolds(t, check.jwks)
        BY <2>2, OneKeyIsEnough
    <2>5. login.issuer = env.issuer /\ login.allowlist = Allowlist(env)
        BY <2>3 DEF LoginConfig
    <2>6. RegistryAccepts(t, login, check.waited)
        <3>1. t.exp \in Int /\ t.iat \in Int /\ t.nbf \in Int /\ Leeway \in Nat /\ check.waited \in Nat
            BY <2>2, RulesAssumption DEF Token
        <3>2. check.waited <= t.exp + Leeway /\ t.iat <= check.waited + Leeway /\ t.nbf <= check.waited + Leeway
            BY <3>1
        <3> QED BY <2>5, <3>2 DEF RegistryAccepts
    <2>7. IssuedToUs(t)
        <3>1. Cardinality(t.aud) = 1
            BY FS_Singleton
        <3> QED BY <3>1 DEF IssuedToUs
    <2>8. Permits(login.allowlist, t)
        BY <2>2, <2>5, PermitsTheNamed
    <2>9. AcceptsLogin(t, login, check.jwks, check.waited)
        BY <2>4, <2>6, <2>7, <2>8 DEF AcceptsLogin
    <2> QED BY <2>9 DEF AdmissionInv, CheckFits
<1> QED BY <1>1, AdmissionInvariant, PTL

\* An access token is accepted for its audience, its scopes and its time alone.
THEOREM AccessIsForThisGate == AdmissionSpec => []AccessIsForUs
<1>1. AdmissionInv => AccessIsForUs
    <2> DEFINE t == check.token
    <2> SUFFICES ASSUME AdmissionInv, Accepted("bearer")
                 PROVE  /\ SignedByIssuer(t, check.jwks) /\ env.issuer \in {"https", "loopback"}
                        /\ t.iss = env.issuer /\ env.audience \in t.aud /\ env.required \subseteq t.scopes
                        /\ check.waited < t.exp /\ check.waited + Leeway >= t.iat
                        /\ check.waited < t.iat + MaxLife
        BY DEF AccessIsForUs
    <2>1. /\ t \in Token /\ check.jwks \in SUBSET Jwk /\ check.waited \in Nat /\ env \in Environment
          /\ TokenOutcome(env) = "on"
          /\ AcceptsAccess(t, TokenConfig(env), check.jwks, check.waited)
        BY AcceptedBySettings DEF Path
    <2>2. env.issuer \in {"https", "loopback"}
        BY <2>1 DEF TokenOutcome, IsSafeUrl
    <2>3. t.iss = env.issuer /\ env.audience \in t.aud /\ env.required \subseteq t.scopes
        BY <2>1 DEF AcceptsAccess, BeforeTheKeys, TokenConfig
    <2>4. InTime(t, check.waited)
        BY <2>1 DEF AcceptsAccess
    <2>5. t.exp \in Int /\ t.iat \in Int /\ Leeway \in Nat /\ MaxLife \in Nat
        BY <2>1, RulesAssumption DEF Token
    <2>6. check.waited < t.exp /\ check.waited + Leeway >= t.iat /\ check.waited < t.iat + MaxLife
        BY <2>1, <2>4, <2>5 DEF InTime
    <2>7. SignedByIssuer(t, check.jwks)
        BY <2>1, SignatureIsByIssuer DEF AcceptsAccess
    <2> QED BY <2>2, <2>3, <2>6, <2>7
<1> QED BY <1>1, AdmissionInvariant, PTL

\* An ID token of a login passes nothing on the Bearer path.
THEOREM IdTokensStayOut == AdmissionSpec => []IdTokenIsNoAccessToken
<1>1. AdmissionInv => IdTokenIsNoAccessToken
    <2> SUFFICES ASSUME AdmissionInv, Accepted("bearer")
                 PROVE  check.token.typ = "at+jwt" \/ check.token.scopes # {}
        BY DEF IdTokenIsNoAccessToken
    <2>1. AcceptsAccess(check.token, TokenConfig(env), check.jwks, check.waited)
        BY AcceptedBySettings DEF Path
    <2> QED BY <2>1 DEF AcceptsAccess, BeforeTheKeys, NoIdToken
<1> QED BY <1>1, AdmissionInvariant, PTL
====
