----------------------------- MODULE Restaurant -----------------------------
(***************************************************************************)
(* The smaller parts of one venue side by side: its menu and import jobs,  *)
(* the migrations of its containers, its floor, a bill, a ticket's events  *)
(* and the limiter in front.  They run in one process over one database    *)
(* and share no state, but that an import job is a session on the menu.    *)
(***************************************************************************)
EXTENDS MenuJobs, Migrations, Floor, Bill, TicketEvents, RateLimit

restaurantVars ==
    <<kitchenVars, migrationVars, floorVars, billVars, eventVars, limitVars>>

RestaurantInit ==
    /\ MenuInit /\ JobsInit /\ MigrationInit
    /\ FloorInit /\ BillInit /\ EventsInit /\ LimitInit

\* One part moves and the others rest.
RestaurantStep ==
    \/ /\ KitchenStep
       /\ UNCHANGED <<migrationVars, floorVars, billVars, eventVars, limitVars>>
    \/ /\ MigrationStep
       /\ UNCHANGED <<kitchenVars, floorVars, billVars, eventVars, limitVars>>
    \/ /\ FloorStep
       /\ UNCHANGED <<kitchenVars, migrationVars, billVars, eventVars, limitVars>>
    \/ /\ BillStep
       /\ UNCHANGED <<kitchenVars, migrationVars, floorVars, eventVars, limitVars>>
    \/ /\ EventsStep
       /\ UNCHANGED <<kitchenVars, migrationVars, floorVars, billVars, limitVars>>
    \/ /\ LimitStep
       /\ UNCHANGED <<kitchenVars, migrationVars, floorVars, billVars, eventVars>>

RestaurantSpec == RestaurantInit /\ [][RestaurantStep]_restaurantVars

-----------------------------------------------------------------------------
(* Properties. *)

\* Every part keeps its types.
VenueTypeOK ==
    /\ MenuTypeOK /\ JobsTypeOK /\ MigrationTypeOK /\ FloorTypeOK
    /\ BillTypeOK /\ EventsTypeOK /\ LimitTypeOK
=============================================================================
