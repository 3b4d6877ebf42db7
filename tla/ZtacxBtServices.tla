--------------------------- MODULE ZtacxBtServices ---------------------------
(***************************************************************************)
(* Services and characteristics that the application registers with the    *)
(* Bluetooth peripheral leaf while it runs                                 *)
(* (src/src/ztacx_bt_peripheral.c, CONFIG_BT_GATT_DYNAMIC_DB).             *)
(*                                                                         *)
(* The application's thread builds tables of attributes, one call after    *)
(* the other; bt_ready, on the work queue's cooperative thread, hands the  *)
(* default table to the stack at a moment of its own, and sets OK a while  *)
(* later, when the bt settings are loaded.  Nothing is locked.             *)
(*                                                                         *)
(* The stack keeps a pointer to the service and gives handles to the       *)
(* attributes it has when it is registered: "known" are those.             *)
(***************************************************************************)
EXTENDS Sequences, SequencesExt, FiniteSets

CONSTANTS
  Service,    \* the default service and those the application allocates
  Default,    \* bt_default_service
  Array,      \* the arrays of characteristics the application registers, each once
  Described,  \* characteristics with a cpf of their own
  Notifying,  \* characteristics with a ccc
  Unhandled,  \* those whose variable has no GATT format, and no cpf
  Missing,    \* those whose variable was not found
  Foldings,   \* can one BT_UUID_GATT_PRIMARY be another? (below)
  NULL        \* no service

Characteristic == UNION {{a[i] : i \in DOMAIN a} : a \in Array}
Part           == {"service", "declaration", "value", "name", "type", "notify"}

\* An attribute is a part of a characteristic, or the declaration of the service.
Attribute   == (Characteristic \cup {NULL}) \X Part
Declaration == <<NULL, "service">>

ASSUME ServicesAssumption ==
  /\ Default \in Service /\ NULL \notin Service
  /\ Array \subseteq Seq(Characteristic) /\ << >> \notin Array
  /\ Unhandled \cap Described = {}
  /\ Foldings \subseteq BOOLEAN

VARIABLES
  folded,       \* the build gives all uses of BT_UUID_GATT_PRIMARY one address
  ready,        \* how far bt_ready is: "enabling", "loading", "ok", "failed"
  attrs,        \* service -> its attributes
  known,        \* service -> the attributes the stack has given handles
  declared,     \* services whose declaration the application has registered
  unregistered, \* the arrays not registered yet
  calling,      \* where the application's thread is in a call
  service,      \* the service it is called for, or NULL
  todo,         \* the characteristics still to append
  ruined,       \* services that lost their attributes, but not the count of them
  early,        \* services handed over undeclared or unfinished (auxiliary)
  twice         \* services handed to the stack twice (auxiliary)

call      == <<calling, service, todo>>
history   == <<early, twice>>
gattState == <<folded, ready, attrs, known, declared, unregistered, call, ruined, history>>

ServicesTypeOK ==
  /\ folded \in BOOLEAN
  /\ ready \in {"enabling", "loading", "ok", "failed"}
  /\ attrs \in [Service -> Seq(Attribute)] /\ known \in [Service -> Seq(Attribute)]
  /\ declared \subseteq Service
  /\ unregistered \subseteq Array
  /\ calling \in {"idle", "append", "offer_service", "offer_characteristics"}
  /\ service \in Service \cup {NULL} /\ (calling = "idle" <=> service = NULL)
  /\ todo \in Seq(Characteristic)
  /\ ruined \subseteq Service /\ early \subseteq Service /\ twice \subseteq Service

ServicesInit ==
  /\ folded \in Foldings
  /\ ready = "enabling"
  /\ attrs = [s \in Service |-> << >>] /\ known = attrs
  /\ declared = {} /\ unregistered = Array
  /\ calling = "idle" /\ service = NULL /\ todo = << >>
  /\ ruined = {} /\ early = {} /\ twice = {}

Known(s) == known[s] # << >>

\* bt_gatt_service_register: its node is appended to the stack's list, once more if
\* it is there already.  It can fail, and nobody tries again.
Hand(s) ==
  /\ known' = [known EXCEPT ![s] = attrs[s]]
  /\ twice' = IF Known(s) THEN twice \cup {s} ELSE twice

HandOrFail(s) == Hand(s) \/ UNCHANGED <<known, twice>>

Return == calling' = "idle" /\ service' = NULL /\ todo' = << >>

-----------------------------------------------------------------------------
(* ztacx_bt_service_register                                               *)

\* The declaration goes before the attributes the default service has, which must
\* have some: memory is allocated with the characteristics.  Other services are
\* allocated here; if that fails, nothing has changed.
Declare(s) ==
  /\ calling = "idle" /\ s \notin declared \cup ruined
  /\ s = Default => attrs[s] # << >>
  /\ declared' = declared \cup {s}
  /\ attrs' = [attrs EXCEPT ![s] = <<Declaration>> \o @]
  /\ calling' = "offer_service" /\ service' = s
  /\ UNCHANGED <<folded, ready, known, unregistered, todo, ruined, history>>

\* No memory for a larger table: its pointer is NULL, its count stays, and any later
\* use of it is undefined (not modelled).
DeclareFails ==
  /\ calling = "idle" /\ Default \notin declared \cup ruined
  /\ attrs[Default] # << >>
  /\ ruined' = ruined \cup {Default}
  /\ UNCHANGED <<folded, ready, attrs, known, declared, unregistered, call, history>>

\* The stack gets it now if it is ready; if not, bt_ready will see to the default
\* service, unless it has already looked, and nobody to the others.
OfferService ==
  /\ calling = "offer_service"
  /\ IF ready = "ok" THEN HandOrFail(service) ELSE UNCHANGED <<known, twice>>
  /\ Return
  /\ UNCHANGED <<folded, ready, attrs, declared, unregistered, ruined, early>>

-----------------------------------------------------------------------------
(* ztacx_bt_characteristic_register                                        *)

\* Broken variant: a service that is known stays known.
CharacteristicsKept(s, a) ==
  /\ calling = "idle" /\ a \in unregistered
  /\ s \in (declared \cup {Default}) \ ruined
  /\ unregistered' = unregistered \ {a}
  /\ calling' = "append" /\ service' = s /\ todo' = a
  /\ UNCHANGED <<folded, ready, attrs, known, declared, ruined, history>>

\* A service the stack knows is taken back while attributes are added; a stack that
\* refuses leaves all as it was.
Characteristics(s, a) ==
  /\ calling = "idle" /\ a \in unregistered
  /\ s \in (declared \cup {Default}) \ ruined
  /\ unregistered' = unregistered \ {a}
  /\ known' = [known EXCEPT ![s] = << >>]
  /\ calling' = "append" /\ service' = s /\ todo' = a
  /\ UNCHANGED <<folded, ready, attrs, declared, ruined, history>>

\* No memory: the service is taken back all the same, and a table it had is lost.
CharacteristicsFail(s) ==
  /\ calling = "idle" /\ unregistered # {}
  /\ s \in (declared \cup {Default}) \ ruined
  /\ known' = [known EXCEPT ![s] = << >>]
  /\ ruined' = IF attrs[s] # << >> THEN ruined \cup {s} ELSE ruined
  /\ UNCHANGED <<folded, ready, attrs, declared, unregistered, call, history>>

\* The attributes of one characteristic.  The type descriptor made from the kind of
\* the variable is not counted, and the next attribute overwrites it.
Common(c)  == <<<<c, "declaration">>, <<c, "value">>, <<c, "name">>>>
Entries(c) ==
  IF c \in Missing THEN << >>
  ELSE Common(c) \o (IF c \in Described THEN <<<<c, "type">>>> ELSE << >>)
                 \o (IF c \in Notifying THEN <<<<c, "notify">>>> ELSE << >>)

Append1(c, new) == attrs' = [attrs EXCEPT ![service] = @ \o new]

AppendNext ==
  /\ calling = "append" /\ todo # << >>
  /\ Head(todo) \notin Unhandled \ Missing
  /\ Append1(Head(todo), Entries(Head(todo)))
  /\ todo' = Tail(todo)
  /\ UNCHANGED <<folded, ready, known, declared, unregistered, calling, service, ruined, history>>

\* -EINVAL in the middle of the table: what was appended stays, and the service is
\* not registered again.
AppendFails ==
  /\ calling = "append" /\ todo # << >>
  /\ Head(todo) \in Unhandled \ Missing
  /\ Append1(Head(todo), Common(Head(todo)))
  /\ Return
  /\ UNCHANGED <<folded, ready, known, declared, unregistered, ruined, history>>

Appended ==
  /\ calling = "append" /\ todo = << >>
  /\ calling' = "offer_characteristics"
  /\ UNCHANGED <<folded, ready, attrs, known, declared, unregistered, service, todo, ruined, history>>

\* attrs[0].uuid == BT_UUID_GATT_PRIMARY compares the addresses of two compound
\* literals, which are one object only if the compiler folds them.
StartsWithService == folded /\ attrs[service] # << >> /\ Head(attrs[service]) = Declaration

OfferCharacteristics ==
  /\ calling = "offer_characteristics"
  /\ IF ready = "ok" /\ StartsWithService
     THEN HandOrFail(service)
     ELSE UNCHANGED <<known, twice>>
  /\ Return
  /\ UNCHANGED <<folded, ready, attrs, declared, unregistered, ruined, early>>

-----------------------------------------------------------------------------
(* bt_ready                                                                *)

\* The default service is handed over if it has attributes, declared or not, even
\* while the application appends to it.
ReadyHands ==
  /\ ready = "enabling" /\ attrs[Default] # << >> /\ Default \notin ruined
  /\ Hand(Default)
  /\ early' = IF Default \notin declared \/ service = Default
              THEN early \cup {Default} ELSE early
  /\ ready' = "loading"
  /\ UNCHANGED <<folded, attrs, declared, unregistered, call, ruined>>

\* There is nothing to hand over, or the stack refuses it.
ReadyHandsNothing ==
  /\ ready = "enabling" /\ Default \notin ruined
  /\ ready' = "loading"
  /\ UNCHANGED <<folded, attrs, known, declared, unregistered, call, ruined, history>>

ReadyOk ==
  /\ ready = "loading"
  /\ ready' = "ok"
  /\ UNCHANGED <<folded, attrs, known, declared, unregistered, call, ruined, history>>

ReadyFailed ==
  /\ ready = "enabling"
  /\ ready' = "failed"
  /\ UNCHANGED <<folded, attrs, known, declared, unregistered, call, ruined, history>>

-----------------------------------------------------------------------------
ServicesNext ==
  \/ \E s \in Service : Declare(s)
  \/ \E s \in Service, a \in Array : Characteristics(s, a)
  \/ \E s \in Service : CharacteristicsFail(s)
  \/ DeclareFails \/ OfferService \/ OfferCharacteristics
  \/ AppendNext \/ AppendFails \/ Appended
  \/ ReadyHands \/ ReadyHandsNothing \/ ReadyOk \/ ReadyFailed

-----------------------------------------------------------------------------
(* Properties.                                                             *)

\* What the stack has of a service is the whole of it, handed over once: no attribute
\* without a handle, no service in its list twice, and none whose table is lost,
\* whatever fails.  Excepted is the default service that bt_ready found undeclared or
\* in the application's hands.
StackKnowsService ==
  /\ twice \subseteq early
  /\ calling = "idle" =>
       \A s \in Service \ early : Known(s) => known[s] = attrs[s] /\ s \notin ruined

=============================================================================
