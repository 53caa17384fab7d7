------------------------------ MODULE MCField ------------------------------
(* The parts around the meter that share little with one another, each     *)
(* checked by itself: `which` runs, the others stand still in one state.   *)
EXTENDS ModbusTcp, Relays, WebPortal, ModbusSlave, ModbusMaster, TimeSource, SdLog
CONSTANT Parts

MCSlotOrder == <<"ca", "key">>

VARIABLE which

fieldVars == <<which, tcpVars, relayVars, slaveVars, masterVars, timeVars, sdVars, portalVars>>

FieldInit ==
    /\ which \in Parts
    /\ Init /\ IoInit /\ SlaveInit /\ BusInit /\ TimeInit /\ CardInit /\ PortalInit
    /\ which # "io" => in = lastIn
    /\ which # "bus" => saved.bus
    /\ which # "time" => floor = 0 /\ chip = Absent

FieldNext ==
    /\ UNCHANGED which
    /\ \/ /\ which = "tcp" /\ Next
          /\ UNCHANGED <<relayVars, slaveVars, masterVars, timeVars, sdVars, portalVars>>
       \/ /\ which = "io" /\ IoNext
          /\ UNCHANGED <<tcpVars, slaveVars, masterVars, timeVars, sdVars, portalVars>>
       \/ /\ which = "rtu" /\ SlaveNext
          /\ UNCHANGED <<tcpVars, relayVars, masterVars, timeVars, sdVars, portalVars>>
       \/ /\ which = "bus" /\ BusNext
          /\ UNCHANGED <<tcpVars, relayVars, slaveVars, timeVars, sdVars, portalVars>>
       \/ /\ which = "time" /\ TimeNext
          /\ UNCHANGED <<tcpVars, relayVars, slaveVars, masterVars, sdVars, portalVars>>
       \/ /\ which = "card" /\ CardNext
          /\ UNCHANGED <<tcpVars, relayVars, slaveVars, masterVars, timeVars, portalVars>>
       \/ /\ which = "portal" /\ PortalNext
          /\ UNCHANGED <<tcpVars, relayVars, slaveVars, masterVars, timeVars, sdVars>>

FieldSpec == FieldInit /\ [][FieldNext]_fieldVars

\* The types of the part that runs.
TypesOK ==
    /\ which = "tcp" => TypeOK
    /\ which = "io" => IoTypeOK
    /\ which = "rtu" => SlaveTypeOK
    /\ which = "bus" => BusTypeOK
    /\ which = "time" => TimeTypeOK
    /\ which = "card" => CardTypeOK
    /\ which = "portal" => PortalTypeOK
=============================================================================
