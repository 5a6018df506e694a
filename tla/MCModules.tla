------------------------------ MODULE MCModules ------------------------------
(* The loadable modules (src/modules) in one run: protocols with their     *)
(* analyzers, and datastores.  They have no state in common.  A behaviour  *)
(* is one of a single part; the others stay in one initial state.          *)
EXTENDS MCHttp, MCSmtp, MCImap, MCStorage

VARIABLE part

Parts == {"http", "smtp", "imap", "datastore", "postgres", "query"}

ModulesInit ==
  /\ part \in Parts
  /\ HttpInit /\ (part # "http" => talk = CHOOSE t \in Talks : TRUE)
  /\ SmtpInit /\ (part # "smtp" => dialogue = CHOOSE d \in TheDialogues : TRUE)
  /\ ImapInit /\ (part # "imap" => session = CHOOSE x \in TheSessions : TRUE)
  /\ DsInit /\ PgInit
  /\ QueryInit /\ (part # "query" => backend = "sqlite" /\ fieldType = "uint8")

ModulesNext ==
  /\ UNCHANGED part
  /\ \/ part = "http" /\ HttpNext /\ UNCHANGED <<smtpVars, imapVars, StorageVars>>
     \/ part = "smtp" /\ SmtpNext /\ UNCHANGED <<httpVars, imapVars, StorageVars>>
     \/ part = "imap" /\ ImapNext /\ UNCHANGED <<httpVars, smtpVars, StorageVars>>
     \/ /\ UNCHANGED <<httpVars, smtpVars, imapVars>>
        /\ \/ part = "datastore" /\ DsNext /\ UNCHANGED <<pgVars, queryVars>>
           \/ part = "postgres" /\ PgNext /\ UNCHANGED <<dsVars, queryVars>>
           \/ part = "query" /\ QueryNext /\ UNCHANGED <<dsVars, pgVars>>

ModulesSpec ==
  ModulesInit /\ [][ModulesNext]_<<httpVars, smtpVars, imapVars, StorageVars, part>>
=============================================================================
