------------------------------- MODULE MCSecrets -------------------------------
(***************************************************************************)
(* The two sources of secrets the redactor must mask: what callers type    *)
(* into the prompts of a shell session, and the vault.  The shell session  *)
(* of the one and the vault of the other share no state: a behaviour is    *)
(* one of either.                                                          *)
(***************************************************************************)
EXTENDS ShellSession, Credentials

CONSTANTS a, b, i1, i2

VARIABLE source

\* The init lines of the two connections the session may have.
MCInits == <<i1, i2>>

\* A choice the other source's initial state has multiplies nothing.
SecretsInit ==
    /\ source \in {"prompts", "vault"} /\ Init /\ CredInit
    /\ source = "prompts" => vaultFile = Empty
    /\ source = "vault" => ~remote

SecretsNext ==
    /\ UNCHANGED source
    /\ \/ source = "prompts" /\ Next /\ UNCHANGED credVars
       \/ source = "vault" /\ CredNext /\ UNCHANGED vars

SecretsSpec == SecretsInit /\ [][SecretsNext]_<<source, vars, credVars>>
================================================================================
