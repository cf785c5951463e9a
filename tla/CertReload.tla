----------------------------- MODULE CertReload -----------------------------
(***************************************************************************)
(* netx/tls.go: certReloader serves a key pair to handshakes and reloads   *)
(* it when the stamp of either file changed.  Whoever rotates the secret   *)
(* writes the two files in any order, in place or at once, while the       *)
(* reloader looks at them one after the other.                             *)
(*                                                                         *)
(* The stamp of a file (its modification time and size) is the number of   *)
(* writes it has seen; its content is the rotation it belongs to, or 0     *)
(* while it is half written.  The mutex is held throughout GetCertificate. *)
(***************************************************************************)
EXTENDS Integers

CONSTANT MaxWrites      \* bound on the writes of each file

CertFiles == {"cert", "key"}

ASSUME CertReloadAssumption == MaxWrites \in Nat

VARIABLES
    files,      \* file -> [stamp, content]
    rotation,   \* the rotation being written
    loaded,     \* [cert, key]: the rotation each half of the served pair is of; 0: none yet
    stamp,      \* r.stamp
    looking,    \* GetCertificate or newCertReloader: [pc, seen, cert]
    failed,     \* ServerTLSConfig returned an error
    tls         \* the server's configuration: [auth, cas], or not built yet

certVars == <<files, rotation, loaded, stamp, looking, failed, tls>>

NotBuilt == [auth |-> "not built", cas |-> FALSE]
Verifying == {"verify if given", "require and verify"}

Unseen == [f \in CertFiles |-> 0]

CertReloadInit ==
    /\ files = [f \in CertFiles |-> [stamp |-> 1, content |-> 1]]
    /\ rotation = 1
    /\ loaded = Unseen /\ stamp = Unseen
    /\ looking = [pc |-> "stat cert", seen |-> Unseen, cert |-> 0]
    /\ failed = FALSE
    /\ tls = NotBuilt

\* serverTLSConfig, after newCertReloader: a client CA file makes a certificate
\* required by default, must hold a certificate (loadClientCAs), and must be
\* there when client certificates are to be verified.
ServerTLSConfig ==
    /\ looking.pc = "idle" /\ ~failed /\ tls = NotBuilt
    /\ \E auth \in {"none", "request", "require any"} \cup Verifying, ca \in {"none", "bundle", "unreadable"} :
         LET cfg == [auth |-> IF ca # "none" /\ auth = "none" THEN "require and verify" ELSE auth,
                     cas  |-> ca # "none"]
         IN  IF ca = "unreadable" \/ (~cfg.cas /\ cfg.auth \in Verifying)
             THEN failed' = TRUE /\ UNCHANGED tls
             ELSE tls' = cfg /\ UNCHANGED failed
    /\ UNCHANGED <<files, rotation, loaded, stamp, looking>>

\* GetCertificate, certReloadInterval after the last look; within it the
\* handshake gets the pair as it is.
Handshake ==
    /\ looking.pc = "idle" /\ tls # NotBuilt
    /\ looking' = [pc |-> "stat cert", seen |-> Unseen, cert |-> 0]
    /\ UNCHANGED <<files, rotation, loaded, stamp, failed, tls>>

\* fileStamp: one Stat after the other.
FileStamp(f, pc, next) ==
    /\ looking.pc = pc
    /\ looking' = [looking EXCEPT !.pc = next, !.seen[f] = files[f].stamp]
    /\ UNCHANGED <<files, rotation, loaded, stamp, failed, tls>>

Compare ==
    /\ looking.pc = "compare"
    /\ looking' = IF looking.seen = stamp THEN [pc |-> "idle", seen |-> Unseen, cert |-> 0]
                  ELSE [looking EXCEPT !.pc = "read cert"]
    /\ UNCHANGED <<files, rotation, loaded, stamp, failed, tls>>

\* load: LoadX509KeyPair reads the two files and fails when one does not parse
\* or the key is not the certificate's; the pair and its stamp change together.
ReadCert ==
    /\ looking.pc = "read cert"
    /\ looking' = [looking EXCEPT !.pc = "read key", !.cert = files["cert"].content]
    /\ UNCHANGED <<files, rotation, loaded, stamp, failed, tls>>

\* Variant: the stamp recorded is that of the files after the load.
LoadThenStamp ==
    /\ looking.pc = "read key"
    /\ looking.cert = files["key"].content /\ looking.cert # 0
    /\ loaded' = [cert |-> looking.cert, key |-> files["key"].content]
    /\ stamp' = [f \in CertFiles |-> files[f].stamp]
    /\ looking' = [pc |-> "idle", seen |-> Unseen, cert |-> 0]
    /\ UNCHANGED <<files, rotation, failed, tls>>

Load ==
    /\ looking.pc = "read key"
    /\ IF looking.cert = files["key"].content /\ looking.cert # 0
       THEN /\ loaded' = [cert |-> looking.cert, key |-> files["key"].content]
            /\ stamp' = looking.seen
            /\ UNCHANGED failed
       ELSE /\ UNCHANGED <<loaded, stamp>>
            /\ failed' = (loaded = Unseen)      \* newCertReloader
    /\ looking' = [pc |-> "idle", seen |-> Unseen, cert |-> 0]
    /\ UNCHANGED <<files, rotation, tls>>

\* fileStamp or LoadX509KeyPair cannot read a file: the pair served is kept, and
\* newCertReloader fails.
LookFails ==
    /\ looking.pc \in {"stat cert", "stat key", "read cert", "read key"}
    /\ looking' = [pc |-> "idle", seen |-> Unseen, cert |-> 0]
    /\ failed' = (failed \/ loaded = Unseen)
    /\ UNCHANGED <<files, rotation, loaded, stamp, tls>>

\* The rotation of the secret (external): in place, a file at a time, each first
\* half written; or both at once, when a mounted secret is swapped.
Rotate ==
    /\ rotation < MaxWrites
    /\ \A f \in CertFiles : files[f].content = rotation
    /\ rotation' = rotation + 1
    /\ \/ files' = [f \in CertFiles |-> [stamp |-> files[f].stamp + 1, content |-> rotation + 1]]
       \/ UNCHANGED files
    /\ UNCHANGED <<loaded, stamp, looking, failed, tls>>

WriteFile(f) ==
    /\ files[f].content # rotation
    /\ files' = [files EXCEPT ![f] = [stamp |-> @.stamp + 1,
                                      content |-> IF @.content = 0 THEN rotation ELSE 0]]
    /\ UNCHANGED <<rotation, loaded, stamp, looking, failed, tls>>

CertReloadNext ==
    \/ ServerTLSConfig \/ Handshake \/ FileStamp("cert", "stat cert", "stat key") \/ FileStamp("key", "stat key", "compare")
    \/ Compare \/ ReadCert \/ Load \/ LookFails
    \/ Rotate \/ \E f \in CertFiles : WriteFile(f)

CertReloadSpec == CertReloadInit /\ [][CertReloadNext]_certVars

-----------------------------------------------------------------------------
\* Whatever the order of the writes, handshakes get a key that belongs to the
\* certificate, and no rotation is missed for good: when the recorded stamp is
\* that of the files, so that no later handshake would reload them, the pair
\* served is the one in the files.  A server that verifies client certificates
\* has the authorities to verify them against.
CertCurrent ==
    /\ loaded["cert"] = loaded["key"]
    /\ (loaded # Unseen /\ stamp = [f \in CertFiles |-> files[f].stamp])
         => loaded = [f \in CertFiles |-> files[f].content]
    /\ tls.auth \in Verifying => tls.cas
=============================================================================
