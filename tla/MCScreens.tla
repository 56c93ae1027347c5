----------------------------- MODULE MCScreens ------------------------------
(* Model checking of Screens: each page on a small instance.               *)
EXTENDS Screens

\* Those that wait do so at one of their initial states.
Waiting ==
    /\ part = "form" \/ (formDocs[1] = None /\ formPage.route = Form!FromProject)
    /\ part = "agenda" \/ \A i \in Agenda!Items :
          agendaServer[i] = IF i \in Sections THEN Agenda!At(None) ELSE None
    /\ part = "routes" \/ (navWho = None)
    /\ part = "list" \/ (~listDrops /\ listServer = [x \in Rows |-> None] /\ listFilter = {"a"})

MCInit == ScreensInit /\ Waiting

MCSpec == MCInit /\ [][ScreensNext]_screensVars /\ ScreensFairness
=============================================================================
