------------------------------ MODULE MetricsCert ------------------------------
(***************************************************************************)
(* The certificate of the metrics endpoint: metricsCertProvider of         *)
(* operator/cmd/metrics_cert.go, called by TLS handshakes that run at the  *)
(* same time, while the projected Secret is rotated under them.            *)
(*                                                                         *)
(* Abstractions:                                                           *)
(*  - a rotation has a number, and a pair is the numbers of its two files; *)
(*    it parses if they are the same and that content is not corrupt, for  *)
(*    each rotation makes a new key.  A file that cannot be read is None;  *)
(*  - the fingerprint is the pair it is of, so cert stands for both fields *)
(*    of the cache;                                                        *)
(*  - a critical section without a read is one step; the sticky flags of   *)
(*    the log are left out, and so is an empty certDir, with which every   *)
(*    handshake is served the self-signed certificate.                     *)
(***************************************************************************)
EXTENDS Integers

CONSTANTS
    Handshakes,   \* those that run at the same time
    Rotations,    \* bound: how often the Secret is written
    Corrupt,      \* the rotations whose content does not parse
    MaxGaps       \* bound: how often a path disappears

VARIABLES
    disk,         \* the rotation both paths show, None while one is gone
    newest,       \* the last rotation
    cert,         \* p.cert with p.fingerprint
    mu,           \* who holds p.mu over a read: nobody or one handshake
    hs,           \* the handshakes
    shown,        \* history: the newest pair a handshake was served
    gaps          \* gaps still to come

vars == <<disk, newest, cert, mu, hs, shown, gaps>>

None    == 0

\* A handshake that has not read anything, or kept nothing but what it was served.
Handling(at, attempt, served, floor, due) ==
    [at |-> at, attempt |-> attempt, crt |-> None, key |-> None, again |-> None,
     served |-> served, floor |-> floor, due |-> due]

Init ==
    /\ disk \in {None, 1} /\ newest = 1 /\ cert = None /\ mu = {}
    /\ hs = [h \in Handshakes |-> Handling("out", 0, None, None, None)]
    /\ shown = None /\ gaps = MaxGaps

Parses(c, k) == c = k /\ c # None /\ c \notin Corrupt

At(h, place) == hs[h].at = place
Free         == mu = {}

\* Pass on to the next place, with what was read.
To(h, s) == hs' = [hs EXCEPT ![h] = s]

Serve(h, c) ==
    /\ To(h, Handling("done", 0, c, hs[h].floor, hs[h].due))
    /\ shown' = IF c > shown THEN c ELSE shown

Begin(h) ==
    /\ At(h, "out") \/ At(h, "done")
    /\ To(h, Handling("crt", 1, None, shown, IF disk \in Corrupt THEN None ELSE disk))
    /\ UNCHANGED <<cert, mu, shown>>

\* readCertPair: one file after the other.
ReadCrt(h) ==
    /\ At(h, "crt") /\ To(h, [hs[h] EXCEPT !.at = "key", !.crt = disk])
    /\ UNCHANGED <<cert, mu, shown>>

ReadKey(h) ==
    /\ At(h, "key") /\ To(h, [hs[h] EXCEPT !.at = "look", !.key = disk])
    /\ UNCHANGED <<cert, mu, shown>>

Readable(h) == hs[h].crt # None /\ hs[h].key # None
Hit(h)      == cert # None /\ hs[h].crt = cert /\ hs[h].key = cert

\* The look into the cache under the lock, and the parse behind it.
Look(h) ==
    /\ At(h, "look") /\ Free /\ UNCHANGED <<cert, mu>>
    /\ \/ Hit(h) /\ Serve(h, cert)
       \/ /\ ~Hit(h) /\ UNCHANGED shown
          /\ To(h, [hs[h] EXCEPT !.at = IF Readable(h) /\ Parses(hs[h].crt, hs[h].key)
                                        THEN "parsed" ELSE "fall back"])

\* The lock is taken again: another handshake may have published the same pair.
Lock(h) ==
    /\ At(h, "parsed") /\ Free /\ UNCHANGED cert
    /\ \/ Hit(h) /\ Serve(h, cert) /\ UNCHANGED mu
       \/ /\ ~Hit(h) /\ mu' = {h}
          /\ To(h, [hs[h] EXCEPT !.at = "crt again"]) /\ UNCHANGED shown

\* The second read, with the lock held.
ReadCrtAgain(h) ==
    /\ At(h, "crt again") /\ To(h, [hs[h] EXCEPT !.at = "key again", !.again = disk])
    /\ UNCHANGED <<cert, mu, shown>>

AnyParse(h, again, keyAgain) == TRUE
StillOnDisk(h, again, keyAgain) == again = hs[h].crt /\ keyAgain = hs[h].key

Publish(h) ==
    LET again == hs[h].again
        unreadable == again = None \/ disk = None
        same == ~unreadable /\ StillOnDisk(h, again, disk)
    IN  /\ At(h, "key again") /\ mu' = {}
        /\ \/ ~same /\ cert # None /\ Serve(h, cert) /\ UNCHANGED cert
           \/ /\ ~same /\ cert = None /\ ~unreadable
              /\ To(h, [hs[h] EXCEPT !.at = IF hs[h].attempt < 2 THEN "crt" ELSE "fall back",
                                     !.attempt = 2])
              /\ UNCHANGED <<cert, shown>>
           \/ /\ same \/ (unreadable /\ cert = None)
              /\ cert' = hs[h].crt /\ Serve(h, hs[h].crt)

\* The last good pair, or the self-signed certificate.
FallBack(h) ==
    /\ At(h, "fall back") /\ Free
    /\ Serve(h, cert) /\ UNCHANGED <<cert, mu>>

GetCertificate(h) ==
    \/ Begin(h) \/ ReadCrt(h) \/ ReadKey(h) \/ Look(h) \/ Lock(h)
    \/ ReadCrtAgain(h) \/ Publish(h) \/ FallBack(h)

\* The kubelet writes the volume; whatever was on the way is disturbed.
Project ==
    /\ \/ newest < Rotations /\ newest' = newest + 1 /\ disk' = newest' /\ UNCHANGED gaps
       \/ disk # None /\ gaps > 0 /\ gaps' = gaps - 1 /\ disk' = None /\ UNCHANGED newest
       \/ disk = None /\ disk' = newest /\ UNCHANGED <<newest, gaps>>
    /\ hs' = [h \in Handshakes |-> [hs[h] EXCEPT !.due = None]]
    /\ UNCHANGED <<cert, mu, shown>>

Next ==
    \/ (\E h \in Handshakes : GetCertificate(h)) /\ UNCHANGED <<disk, newest, gaps>>
    \/ Project

------------------------------------------------------------------------------
(* Properties *)

\* No handshake is served an older pair than one that was served before it
\* began, nor the self-signed certificate once there was a pair; and one that
\* the Secret left alone is served what is on disk (metrics_cert.go:24-39, 134-158).
NeverOlder ==
    \A h \in Handshakes : At(h, "done") =>
        /\ hs[h].served >= hs[h].floor
        /\ hs[h].due # None => hs[h].served = hs[h].due

------------------------------------------------------------------------------
(* The argument for NeverOlder: the cache only grows, because the pair that is     *)
(* published was on disk after the lock was taken; what was shown is not newer.    *)

Reading   == {"key", "look", "parsed", "crt again", "key again"}
HasRead   == Reading \ {"key"}
Holding   == {"crt again", "key again"}
Places    == Reading \union {"out", "crt", "fall back", "done"}
Handshake == [at : Places, attempt : Nat, crt : Nat, key : Nat, again : Nat,
              served : Nat, floor : Nat, due : Nat]

\* A handshake that nothing disturbed has read what is on disk.
Undisturbed(s) ==
    /\ disk = s.due /\ disk \notin Corrupt /\ s.at # "fall back"
    /\ s.at \in Reading => s.crt = disk
    /\ s.at \in HasRead => s.key = disk
    /\ s.at = "key again" => s.again = disk
    /\ s.at = "done" => s.served = disk

Grows(h) ==
    /\ hs[h].floor <= shown
    /\ At(h, "done") => hs[h].served >= hs[h].floor
    /\ hs[h].at \in Reading => hs[h].crt <= newest
    /\ hs[h].at \in Holding => mu = {h}
    /\ At(h, "key again") /\ hs[h].again # None => hs[h].again >= cert
    /\ hs[h].due # None => Undisturbed(hs[h])

CertInv ==
    /\ newest \in Nat /\ disk \in {None, newest} /\ cert \in Nat /\ shown \in Nat
    /\ hs \in [Handshakes -> Handshake]
    /\ shown <= cert /\ cert <= newest
    /\ \A h \in Handshakes : Grows(h)
================================================================================
