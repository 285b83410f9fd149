----------------------------- MODULE MCComponents ------------------------------
(***************************************************************************)
(* Small instances of components that do not call each other, checked side *)
(* by side: the first state chooses the one that runs.                      *)
(***************************************************************************)
EXTENDS PriorityMutex, MemTrace, AppLog, Transfer, XMLDocument, Socket, MultipartResponse,
        Containers, Calendar, MD5, Streams, Files, OptionParser, Addresses

CONSTANTS
  spare,    \* the element for the document
  Parts     \* the components that run

VARIABLE part     \* the component that runs

allVars == <<part, memVars, logVars, transferVars, priorityVars, treeVars,
                documentVars, socketVars, multipartVars, containerVars, calendarVars,
                md5Vars, streamsVars, filesVars, optionVars, addressVars>>

(* The tree is built of two elements; the third is for the document. *)
Untouched(e) == links.parent[e] = Nil /\ links.first[e] = Nil

(* The run changes the source once; names are alike, so one of them changes. *)
Steady(n) == src'[n] = src[n]
Changing == CHOOSE n \in Names : TRUE

Orders == {f \in [Locks -> Priorities] : {f[l] : l \in Locks} = Priorities}

(* Bodies with and without Content-Length, and an empty part. *)
mcPartLists ==
  LET sized(n) == [sized |-> TRUE, length |-> n]
      delimited(n) == [sized |-> FALSE, length |-> n]
  IN  {<<sized(2), delimited(1), sized(1)>>, <<sized(2), sized(1)>>,
       <<delimited(0), delimited(2)>>}

(* Years of 11 or 10 days: the second of three months has two or three. *)
mcDaysIn(y, m) == IF m = 2 THEN 2 + (y % 2) ELSE 4

(* Times spread over the middle two years, one of all that differ. *)
mcAskable == {t \in 42..127 : t % 13 = 0}

(* Strings with and without a character that is escaped (1 is the quote). *)
mcStrings == {<<2>>, <<1, 3>>}

mcSearched == {<<1, 3>>, <<1, 1, 1>>}

mcInit ==
  /\ part \in Parts
  /\ MemInit /\ LogInit /\ TransferInit /\ PriorityInit /\ DocumentInit
  /\ SocketInit /\ MultipartInit /\ ContainersInit /\ CalendarInit /\ MD5Init
  /\ StreamsInit /\ FilesInit /\ OptionInit /\ AddressesInit
  /\ (part # "lock" => priority = CHOOSE f \in Orders : TRUE)
  /\ (part # "multipart" => parts = CHOOSE ps \in PartLists : TRUE)
  /\ cur = CHOOSE c \in {<<m>> : m \in Names} : TRUE
  /\ (part # "files" => \A n \in Names : src[n] = Absent)
  /\ (part # "options" => \A f \in Flags : vals[f] = 0)
  /\ (part # "addresses" => name = Nobody /\ ip = 0
                          /\ host = path /\ host = CHOOSE f \in Fields : TRUE)

MemoryRuns ==
  /\ part = "memory" /\ MemNext
  /\ UNCHANGED <<part, logVars, transferVars, priorityVars, treeVars, documentVars,
                socketVars, multipartVars, containerVars, calendarVars, md5Vars,
                streamsVars, filesVars, optionVars, addressVars>>

LogRuns ==
  /\ part = "log" /\ LogNext
  /\ UNCHANGED <<part, memVars, transferVars, priorityVars, treeVars, documentVars,
                socketVars, multipartVars, containerVars, calendarVars, md5Vars,
                streamsVars, filesVars, optionVars, addressVars>>

TransferRuns ==
  /\ part = "transfer" /\ TransferNext
  /\ UNCHANGED <<part, memVars, logVars, priorityVars, treeVars, documentVars,
                socketVars, multipartVars, containerVars, calendarVars, md5Vars,
                streamsVars, filesVars, optionVars, addressVars>>

LockRuns ==
  /\ part = "lock" /\ PriorityNext
  /\ UNCHANGED <<part, memVars, logVars, transferVars, treeVars, documentVars,
                socketVars, multipartVars, containerVars, calendarVars, md5Vars,
                streamsVars, filesVars, optionVars, addressVars>>

TreeRuns ==
  /\ part = "tree" /\ TreeNext /\ Untouched(spare)'
  /\ UNCHANGED <<part, memVars, logVars, transferVars, priorityVars, documentVars,
                socketVars, multipartVars, containerVars, calendarVars, md5Vars,
                streamsVars, filesVars, optionVars, addressVars>>

DocumentRuns ==
  /\ part = "document" /\ DocumentNext
  /\ UNCHANGED <<part, memVars, logVars, transferVars, priorityVars, socketVars,
                multipartVars, containerVars, calendarVars, md5Vars, streamsVars,
                filesVars, optionVars, addressVars>>

SocketRuns ==
  /\ part = "socket" /\ SocketNext
  /\ UNCHANGED <<part, memVars, logVars, transferVars, priorityVars, treeVars,
                documentVars, multipartVars, containerVars, calendarVars, md5Vars,
                streamsVars, filesVars, optionVars, addressVars>>

MultipartRuns ==
  /\ part = "multipart" /\ MultipartNext
  /\ UNCHANGED <<part, memVars, logVars, transferVars, priorityVars, treeVars,
                documentVars, socketVars, containerVars, calendarVars, md5Vars,
                streamsVars, filesVars, optionVars, addressVars>>

ContainersRuns ==
  /\ part = "containers" /\ ContainersNext
  /\ UNCHANGED <<part, memVars, logVars, transferVars, priorityVars, treeVars,
                documentVars, socketVars, multipartVars, calendarVars, md5Vars,
                streamsVars, filesVars, optionVars, addressVars>>

CalendarRuns ==
  /\ part = "calendar" /\ CalendarNext
  /\ UNCHANGED <<part, memVars, logVars, transferVars, priorityVars, treeVars,
                documentVars, socketVars, multipartVars, containerVars, md5Vars,
                streamsVars, filesVars, optionVars, addressVars>>

DigestRuns ==
  /\ part = "digest" /\ MD5Next
  /\ UNCHANGED <<part, memVars, logVars, transferVars, priorityVars, treeVars,
                documentVars, socketVars, multipartVars, containerVars, calendarVars,
                streamsVars, filesVars, optionVars, addressVars>>

StreamsRuns ==
  /\ part = "streams" /\ StreamsNext
  /\ UNCHANGED <<part, memVars, logVars, transferVars, priorityVars, treeVars,
                documentVars, socketVars, multipartVars, containerVars, calendarVars,
                md5Vars, filesVars, optionVars, addressVars>>

FilesRuns ==
  /\ part = "files" /\ FilesNext /\ \A n \in Names \ {Changing} : Steady(n)
  /\ UNCHANGED <<part, memVars, logVars, transferVars, priorityVars, treeVars,
                documentVars, socketVars, multipartVars, containerVars, calendarVars,
                md5Vars, streamsVars, optionVars, addressVars>>

OptionsRuns ==
  /\ part = "options" /\ OptionNext
  /\ UNCHANGED <<part, memVars, logVars, transferVars, priorityVars, treeVars,
                documentVars, socketVars, multipartVars, containerVars, calendarVars,
                md5Vars, streamsVars, filesVars, addressVars>>

AddressesRuns ==
  /\ part = "addresses" /\ AddressesNext
  /\ UNCHANGED <<part, memVars, logVars, transferVars, priorityVars, treeVars,
                documentVars, socketVars, multipartVars, containerVars, calendarVars,
                md5Vars, streamsVars, filesVars, optionVars>>

mcNext ==
  \/ MemoryRuns
  \/ LogRuns
  \/ TransferRuns
  \/ LockRuns
  \/ TreeRuns
  \/ DocumentRuns
  \/ SocketRuns
  \/ MultipartRuns
  \/ ContainersRuns
  \/ CalendarRuns
  \/ DigestRuns
  \/ StreamsRuns
  \/ FilesRuns
  \/ OptionsRuns
  \/ AddressesRuns

mcSpec == mcInit /\ [][mcNext]_allVars
================================================================================
