---------------------------- MODULE DictMongodb ----------------------------
(***************************************************************************)
(* The mongodb: lookup table of this fork and its user, the virtual(8)     *)
(* delivery agent with virtual_mailbox_maps = mongodb:...                  *)
(*                                                                         *)
(* Each virtual(8) process opens its own table handle when it starts and   *)
(* keeps it until it exits.  For every recipient it looks up the mailbox   *)
(* in the table and then delivers, bounces or defers the recipient.  The   *)
(* MongoDB server, the client library, the configuration file and the rest *)
(* of the machine are the environment: each of them may break and be       *)
(* repaired between any two steps.                                         *)
(***************************************************************************)
EXTENDS Naturals

CONSTANTS Procs,      \* virtual(8) processes
          Locals,     \* local parts of addresses, without extension
          Domains,    \* domains of addresses
          Exts,       \* address extensions, the text after '+'
          NoExt,      \* no '+' in the address
          NoDomain,   \* no '@' in a lookup result
          MaxChanges  \* bound: environment changes (failures and database edits)

ASSUME MongoAssumption ==
  /\ NoExt \notin Exts
  /\ NoDomain \notin Domains
  /\ MaxChanges \in Nat

VARIABLES docs,     \* addresses that have a document in the collection
          works,    \* which parts of the environment work
          changes,  \* environment changes so far
          handle,   \* per process: its DICT
          rcpt,     \* per recipient address: what became of it
          mailbox   \* per recipient address: the mailbox it was delivered to

vars == <<docs, works, changes, handle, rcpt, mailbox>>

Address == [local : Locals, ext : Exts \union {NoExt}, domain : Domains]

NoMailbox == [local |-> NoExt, ext |-> NoExt, domain |-> NoDomain]

(* file: the table's configuration file can be read; uri: its uri parses;  *)
(* client: libmongoc can make a client; server: MongoDB answers queries;   *)
(* owner: the uid and gid tables answer; storage: the mailbox can be       *)
(* written.                                                                *)
Parts == {"file", "uri", "client", "server", "owner", "storage"}

Handles == [kind : {"none", "surrogate", "mongodb"}, uri : BOOLEAN,
            connected : BOOLEAN, error : {"none", "retry"}]

NoHandle == [kind |-> "none", uri |-> FALSE, connected |-> FALSE, error |-> "none"]

Init ==
  /\ docs \in SUBSET Address
  /\ works = [x \in Parts |-> TRUE]
  /\ changes = 0
  /\ handle = [p \in Procs |-> NoHandle]
  /\ rcpt = [r \in Address |-> "queued"]
  /\ mailbox = [r \in Address |-> NoMailbox]

---------------------------------------------------------------------------
(* The table handle.                                                       *)

(* dict_mongodb_my_connect: no network traffic, only the URI and the       *)
(* client object; the URI is the one that was read when the table was      *)
(* opened.                                                                 *)
MyConnect(h) ==
  LET ok == h.uri /\ works["client"]
  IN  [h EXCEPT !.connected = ok, !.error = IF ok THEN "none" ELSE "retry"]

(* dict_mongodb_open, with dict_surrogate when there is no configuration   *)
(* file.  The result of the connect is ignored.                            *)
OpenHandle ==
  IF works["file"]
    THEN MyConnect([NoHandle EXCEPT !.kind = "mongodb", !.uri = works["uri"]])
    ELSE [NoHandle EXCEPT !.kind = "surrogate"]

\* Mutant: the extension stays in the query.
QueryKey_KeepsExtension(name) == name

(* name+test@domain is looked up as name@domain.                           *)
QueryKey(name) == [name EXCEPT !.ext = NoExt]

(* mongoc_collection_find_with_opts and mongoc_cursor_next: a document is  *)
(* returned, or not; the cursor's error is not part of the answer.         *)
CursorNext(h, key) == h.connected /\ works["server"] /\ key \in docs

(* The local part of the key that was found.                               *)
FoundValue(name) == [QueryKey(name) EXCEPT !.domain = NoDomain]

\* Mutant: a handle that failed to connect once is not tried again.
Lookup_NoReconnect(h, name) ==
  CASE h.kind = "surrogate" -> [h |-> [h EXCEPT !.error = "retry"], result |-> NoMailbox]
    [] h.kind = "mongodb" /\ ~ h.connected ->
         [h |-> [h EXCEPT !.error = "retry"], result |-> NoMailbox]
    [] OTHER -> [h |-> [h EXCEPT !.error = "none"],
                 result |-> IF CursorNext(h, QueryKey(name))
                              THEN FoundValue(name) ELSE NoMailbox]

(* dict_mongodb_lookup (dict_surrogate_lookup for a surrogate): the handle *)
(* after the lookup, and the result.                                       *)
Lookup(h, name) ==
  LET c == IF h.connected THEN h ELSE MyConnect(h)
  IN  IF h.kind = "surrogate"
        THEN [h |-> [h EXCEPT !.error = "retry"], result |-> NoMailbox]
      ELSE IF c.error # "none" /\ ~ h.connected
        THEN [h |-> [c EXCEPT !.error = "retry"], result |-> NoMailbox]
        ELSE [h |-> [c EXCEPT !.error = "none"],
              result |-> IF CursorNext(c, QueryKey(name))
                           THEN FoundValue(name) ELSE NoMailbox]

---------------------------------------------------------------------------
(* The virtual(8) process.                                                 *)

(* Process start: post_init opens the table.                               *)
Open(p) ==
  /\ handle[p].kind = "none"
  /\ handle' = [handle EXCEPT ![p] = OpenHandle]
  /\ UNCHANGED <<docs, works, changes, rcpt, mailbox>>

(* Process exit, after max_use requests or max_idle seconds: the handle is *)
(* gone and the configuration will be read again.                          *)
Exit(p) ==
  /\ handle[p].kind # "none"
  /\ handle' = [handle EXCEPT ![p] = NoHandle]
  /\ UNCHANGED <<docs, works, changes, rcpt, mailbox>>

\* Mutant: a recipient that is not found is deferred, error or not.
DeliverMailbox_NeverUnknown(found) ==
  IF found.result # NoMailbox /\ works["owner"] /\ works["storage"]
    THEN "sent" ELSE "deferred"

(* deliver_mailbox, and deliver_unknown when it returns NO.                *)
DeliverMailbox(found) ==
  CASE found.result = NoMailbox /\ found.h.error = "none" -> "bounced"
    [] found.result # NoMailbox /\ works["owner"] /\ works["storage"] -> "sent"
    [] OTHER -> "deferred"

(* deliver_recipient for one recipient of a delivery request.              *)
DeliverRecipient(p, r) ==
  LET found == Lookup(handle[p], r)
      status == DeliverMailbox(found)
  IN  /\ handle[p].kind # "none"
      /\ rcpt[r] = "queued"
      /\ handle' = [handle EXCEPT ![p] = found.h]
      /\ rcpt' = [rcpt EXCEPT ![r] = status]
      /\ mailbox' = [mailbox EXCEPT ![r] = IF status = "sent" THEN found.result ELSE @]
      /\ UNCHANGED <<docs, works, changes>>

(* The queue manager brings a deferred recipient back.                     *)
Retry(r) ==
  /\ rcpt[r] = "deferred"
  /\ rcpt' = [rcpt EXCEPT ![r] = "queued"]
  /\ UNCHANGED <<docs, works, changes, handle, mailbox>>

---------------------------------------------------------------------------
(* The environment.                                                        *)

Break(x) ==
  /\ changes < MaxChanges
  /\ works[x]
  /\ works' = [works EXCEPT ![x] = FALSE]
  /\ changes' = changes + 1
  /\ UNCHANGED <<docs, handle, rcpt, mailbox>>

Repair(x) ==
  /\ ~ works[x]
  /\ works' = [works EXCEPT ![x] = TRUE]
  /\ UNCHANGED <<docs, changes, handle, rcpt, mailbox>>

Insert(a) ==
  /\ changes < MaxChanges
  /\ a \notin docs
  /\ docs' = docs \union {a}
  /\ changes' = changes + 1
  /\ UNCHANGED <<works, handle, rcpt, mailbox>>

Remove(a) ==
  /\ changes < MaxChanges
  /\ a \in docs
  /\ docs' = docs \ {a}
  /\ changes' = changes + 1
  /\ UNCHANGED <<works, handle, rcpt, mailbox>>

Next ==
  \/ \E p \in Procs : Open(p) \/ Exit(p)
  \/ \E p \in Procs, r \in Address : DeliverRecipient(p, r)
  \/ \E r \in Address : Retry(r)
  \/ \E x \in Parts : Break(x) \/ Repair(x)
  \/ \E a \in Address : Insert(a) \/ Remove(a)

Spec == Init /\ [][Next]_vars

(* The master restarts an exited process and every process exits in the    *)
(* end (max_use, max_idle); the queue manager retries; what breaks is      *)
(* repaired; a request that is repeated for ever is served.                *)
Fairness ==
  /\ \A p \in Procs : WF_vars(Open(p)) /\ WF_vars(Exit(p))
  /\ \A r \in Address : /\ SF_vars(\E p \in Procs : DeliverRecipient(p, r))
                        /\ WF_vars(Retry(r))
  /\ \A x \in Parts : WF_vars(Repair(x))

FairSpec == Spec /\ Fairness

---------------------------------------------------------------------------
(* Properties.                                                             *)

(* A handle that could answer: opened from a readable file with a good URI.*)
Usable(h) == h.kind = "mongodb" /\ h.uri

(* The documents that answer for an address: its own, without extension.   *)
Known(r) == [local |-> r.local, ext |-> NoExt, domain |-> r.domain] \in docs

(* While MongoDB answers, virtual(8) returns mail as "unknown user" only   *)
(* when the address, without its extension, has no document.               *)
BounceOnlyIfAbsent ==
  [][\A r \in Address : rcpt[r] = "queued" /\ rcpt'[r] = "bounced"
        => ~ Known(r) \/ ~ works["server"]]_vars

(* The handle that a process opened decides, whatever it looked up before. *)
(* A table that could not be opened, or whose URI is bad, defers every     *)
(* recipient: a configuration error loses no mail.  A usable handle that   *)
(* failed to connect earlier connects again on the next lookup: with       *)
(* everything repaired, the recipient is not deferred.                     *)
HandleDecides ==
  [][\A p \in Procs, r \in Address :
        DeliverRecipient(p, r) =>
          /\ ~ Usable(handle[p]) => rcpt'[r] = "deferred"
          /\ Usable(handle[p]) /\ (\A x \in Parts : works[x]) => rcpt'[r] # "deferred"]_vars

(* Every recipient is delivered or returned in the end: no outage, stale   *)
(* URI or surrogate table defers a recipient for ever.                     *)
EventuallyAnswered == \A r \in Address : <>(rcpt[r] \in {"sent", "bounced"})

(* "Bounce if not found, defer in case of trouble": a recipient that has a *)
(* document is not returned as unknown.                                    *)
TroubleDefers ==
  [][\A r \in Address : rcpt[r] = "queued" /\ rcpt'[r] = "bounced"
        => ~ Known(r)]_vars
=============================================================================
