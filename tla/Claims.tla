------------------------------- MODULE Claims -------------------------------
(***************************************************************************)
(* A user's identity on its way to the handler: the pre-token trigger      *)
(* (packages/cognito-pretoken) or scripts/mint-token.mjs writes claims     *)
(* into a token, the gateway's authorizer or the local server's stub reads *)
(* them into the event, and auth/claims.ts into an AuthContext.            *)
(*                                                                         *)
(* A group's name is a sequence of words; what separates them, a comma or  *)
(* blanks, is left out.  A string that lists groups is given by the names  *)
(* it was made of and the way it was made.  What JSON.parse would make of  *)
(* a flattened list is a constant.                                         *)
(***************************************************************************)
EXTENDS Sequences, Functions

CONSTANTS
    Missing,    \* an attribute that is not there; its claim is no string
    JsonReads,  \* lists whose "[a b]" is JSON by chance -> the list that JSON.parse reads
    NoToken, NoAuth

\* The words of a list of names, and the names that each of them alone would be.
Words(names)     == UNION {Range(name) : name \in Range(names)}
Fragments(names) == {<<word>> : word \in Words(names)}

NoClaim          == [encoding |-> "absent"]
Array(names)     == [encoding |-> "array", names |-> names]
Json(names)      == [encoding |-> "json", names |-> names]
Flattened(names) == [encoding |-> "flat", names |-> names]

\* MUTANT: the trigger joins the names with blanks.
Roles_Joined(groups) == IF groups = <<>> THEN NoClaim ELSE Flattened(groups)

\* The trigger's `roles` claim: the names as JSON in a string.
Roles(groups) == IF groups = <<>> THEN NoClaim ELSE Json(groups)

\* Cognito issues no token when the trigger throws: a user without a tenant has none.
CognitoToken(user) ==
    IF user.tenant = Missing THEN NoToken
    ELSE [sub |-> user.sub, tenant |-> user.tenant, roles |-> Roles(user.groups),
          groups |-> IF user.groups = <<>> THEN NoClaim ELSE Array(user.groups)]

\* The stub token for the local server: no trigger, and the names as they are left
\* after the argument was split at its commas. An option without a value is `true`.
MintedToken(user) ==
    [sub |-> user.sub, tenant |-> user.tenant, roles |-> NoClaim,
     groups |-> Array(user.groups)]

\* The authorizer passes strings on and flattens an array to "[a b]".
AuthorizerClaims(token) ==
    IF token.groups = NoClaim THEN token
    ELSE [token EXCEPT !.groups = Flattened(token.groups.names)]

\* JSON.parse succeeds on what JSON.stringify wrote, and on some flattened lists.
IsJson(string)    == string.encoding = "json" \/ string.names \in DOMAIN JsonReads
JsonParse(string) == IF string.encoding = "json" THEN string.names
                     ELSE JsonReads[string.names]

\* An array as it is; a string as JSON if it is JSON, else word by word.
ParseGroups(value) ==
    IF value = NoClaim THEN {}
    ELSE IF value.encoding = "array" THEN Range(value.names)
    ELSE IF IsJson(value) THEN Range(JsonParse(value))
    ELSE Fragments(value.names)

\* extractAuth; NoAuth stands for the UnauthorizedError.
ExtractAuth(claims) ==
    IF claims = NoToken \/ claims.sub = Missing \/ claims.tenant = Missing THEN NoAuth
    ELSE [sub |-> claims.sub, tenant |-> claims.tenant,
          groups |-> ParseGroups(claims.groups) \cup ParseGroups(claims.roles)]
=============================================================================
