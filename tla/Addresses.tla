------------------------------- MODULE Addresses --------------------------------
(***************************************************************************)
(* URL and IPAddress, which compose and look up what they are asked for and *)
(* keep it: a URL its request and the whole of itself, an address its       *)
(* number and its name.  A URL has one field of each kind: the host stands  *)
(* for user, password and port too, the path for fragment and delimiter.    *)
(*                                                                          *)
(* Both caches of a URL can be stale: README, section 6.                    *)
(***************************************************************************)
EXTENDS Integers, FiniteSets

CONSTANTS
  Fields,        \* values of a field
  Hosts, Nobody, \* host names, and none
  IPs            \* numbers of addresses; 0 is none

ASSUME AddressesAssumption == Nobody \notin Hosts /\ 0 \notin IPs

VARIABLES
  host, path, urlParams,   \* the URL: its fields, and the names of its parameters
  url, req,             \* _url and _req: what they were composed from, or {}
  staleUrl,             \* request() was composed anew behind _url
  staleReq,             \* a parameter was added behind _req
  name, ip,             \* the address
  given,                \* [name, ip] it was made with
  answers               \* what the name given was resolved to

urlVars == <<host, path, urlParams, url, req, staleUrl, staleReq>>
addressVars == <<urlVars, name, ip, given, answers>>
hostVars == <<name, ip, given, answers>>

AddressesInit ==
  /\ host \in Fields /\ path \in Fields /\ urlParams = {} /\ url = {} /\ req = {}
  /\ staleUrl = FALSE /\ staleReq = FALSE
  /\ \/ name \in Hosts /\ ip = 0
     \/ name = Nobody /\ ip \in IPs \cup {0}
  /\ given = [name |-> name, ip |-> ip] /\ answers = {}

(* Mutant: the string is kept. *)
HostKeepsUrl(h) == host' = h /\ url' = url /\ staleUrl' = staleUrl

Host(h) == h # host /\ host' = h /\ url' = {} /\ staleUrl' = FALSE

SetHost(h) == Host(h) /\ UNCHANGED <<path, urlParams, req, staleReq, hostVars>>

SetPath(p) ==
  /\ p # path /\ path' = p /\ req' = {} /\ staleReq' = FALSE
  /\ UNCHANGED <<host, urlParams, url, staleUrl, hostVars>>

(* param() leaves _req as it is. *)
AddParam(n) ==
  /\ n \notin urlParams /\ urlParams' = urlParams \cup {n} /\ staleReq' = (req # {})
  /\ UNCHANGED <<host, path, url, req, staleUrl, hostVars>>

Requested == IF req # {} THEN req ELSE {[path |-> path, names |-> urlParams]}
Composed(h, r) == {[host |-> h, request |-> r]}

Request ==
  /\ req' = Requested
  /\ staleUrl' = (staleUrl \/ (url # {} /\ req = {}))
  /\ UNCHANGED <<host, path, urlParams, url, staleReq, hostVars>>

(* The conversion to a string takes _url only if there is a _req. *)
Converted == IF url # {} /\ req # {} THEN url ELSE Composed(host, Requested)

Convert ==
  /\ url' = Converted /\ req' = Requested
  /\ staleUrl' = (staleUrl /\ url # {} /\ req # {})
  /\ UNCHANGED <<host, path, urlParams, staleReq, hostVars>>

--------------------------------------------------------------------------------
(* ip(): a name is resolved, and forgotten if that succeeds. *)
GetIP(a) ==
  /\ ip = 0 /\ name # Nobody /\ a \in IPs \cup {0}
  /\ IF a = 0 THEN UNCHANGED <<name, ip>> ELSE name' = Nobody /\ ip' = a
  /\ answers' = IF name = given.name THEN answers \cup {a} ELSE answers
  /\ UNCHANGED <<urlVars, given>>

(* name(): the reverse lookup, of an address without a number too *)
GetName(h) ==
  /\ name = Nobody /\ name' = h
  /\ UNCHANGED <<urlVars, ip, given, answers>>

AddressesNext ==
  \/ Request \/ Convert
  \/ \E f \in Fields : SetHost(f) \/ SetPath(f) \/ AddParam(f)
  \/ \E a \in IPs \cup {0} : GetIP(a)
  \/ \E h \in Hosts \cup {Nobody} : GetName(h)

AddressesSpec == AddressesInit /\ [][AddressesNext]_addressVars

--------------------------------------------------------------------------------
(* Properties. *)

Now == {[path |-> path, names |-> urlParams]}
Unknown == [name |-> Nobody, ip |-> 0]

(* What a URL says is what it was last set to, in whatever order it is set    *)
(* and asked, but for a parameter that came behind a composed request, and    *)
(* for request() asked between a change of the path and the string.  An       *)
(* address keeps the number it was made with or that its own name had, never  *)
(* the one of a name it has looked up itself, if it was valid to begin with.  *)
AnswersAreCurrent ==
  /\ ~staleReq => Requested = Now
  /\ ~staleUrl /\ ~staleReq => Converted = Composed(host, Now)
  /\ ip # 0 /\ given # Unknown => ip = given.ip \/ ip \in answers

(* What the proof carries along: what is kept was composed of the fields as   *)
(* they are, or is marked stale; an address without a number was made without *)
(* one, and has the name it was made with if it was made with one.            *)
AddressesIInv ==
  /\ ~staleReq => req \in {{}, Now}
  /\ ~staleReq /\ ~staleUrl /\ req # {} => url \in {{}, Composed(host, Now)}
  /\ given \in [name : Hosts \cup {Nobody}, ip : IPs \cup {0}]
  /\ ip = 0 => given.ip = 0 /\ given.name \in {name, Nobody}
  /\ ip # 0 /\ given # Unknown => ip = given.ip \/ ip \in answers
================================================================================
