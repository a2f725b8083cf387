------------------------------- MODULE Dashboards -------------------------------
(***************************************************************************)
(* The dashboards of telemetry and their widgets.  The API's process runs  *)
(* each request to its end; a request of two statements may die between    *)
(* them.                                                                   *)
(***************************************************************************)
EXTENDS Integers, FiniteSets

CONSTANTS Dashboard, Widget, Place

VARIABLES
  dashboards,   \* the rows of telemetry_dashboards
  default,      \* those with is_default
  widgets,      \* rows of telemetry_dashboard_widgets: [widget, dashboard, place]; a place has its size
  request       \* the request under way: [pc, dashboard]

vars == <<dashboards, default, widgets, request>>

Idle == [pc |-> "idle", dashboard |-> CHOOSE d \in Dashboard : TRUE]

\* At most one dashboard is the default, however a request dies; widgets are on dashboards.
TypeOK ==
  /\ default \subseteq dashboards /\ Cardinality(default) <= 1 /\ dashboards \subseteq Dashboard
  /\ \A w \in widgets : w.widget \in Widget /\ w.dashboard \in dashboards /\ w.place \in Place
  /\ request \in [pc : {"idle", "create", "update"}, dashboard : Dashboard]

Init == dashboards = {} /\ default = {} /\ widgets = {} /\ request = Idle

Free == request.pc = "idle"
On(d) == {w \in widgets : w.dashboard = d}
Taken == {w.widget : w \in widgets}

-----------------------------------------------------------------------------
(* Dashboards.                                                             *)

CreateDashboard(d) ==
  /\ Free /\ d \notin dashboards /\ dashboards' = dashboards \cup {d}
  /\ UNCHANGED <<default, widgets, request>>

\* createDashboard and updateDashboard with isDefault: the others lose it first, in a statement of
\* its own and before the dashboard is looked for.
ClearDefault(d) ==
  /\ Free /\ default' = {}
  /\ request' = [pc |-> IF d \in dashboards THEN "update" ELSE "create", dashboard |-> d]
  /\ UNCHANGED <<dashboards, widgets>>

CreateDefault ==
  /\ request.pc = "create" /\ request' = Idle
  /\ dashboards' = dashboards \cup {request.dashboard} /\ default' = default \cup {request.dashboard}
  /\ UNCHANGED widgets

UpdateDefault ==
  /\ request.pc = "update" /\ request' = Idle /\ default' = default \cup {request.dashboard}
  /\ UNCHANGED <<dashboards, widgets>>

\* The update of a dashboard that is not there answers 404, and a process may die: none is default.
ClearOnly == ~Free /\ request' = Idle /\ UNCHANGED <<dashboards, default, widgets>>

DropDefault(d) ==
  /\ Free /\ d \in dashboards /\ default' = default \ {d}
  /\ UNCHANGED <<dashboards, widgets, request>>

\* The widgets go with their dashboard.
DeleteDashboard(d) ==
  /\ Free /\ d \in dashboards
  /\ dashboards' = dashboards \ {d} /\ default' = default \ {d} /\ widgets' = widgets \ On(d)
  /\ UNCHANGED request

-----------------------------------------------------------------------------
(* Widgets, of a dashboard of the caller's organization.                   *)

AddWidget(d, w, place) ==
  /\ Free /\ d \in dashboards /\ w \notin Taken
  /\ widgets' = widgets \cup {[widget |-> w, dashboard |-> d, place |-> place]}
  /\ UNCHANGED <<dashboards, default, request>>

\* updateWidget: its title, its contents or its size.
UpdateWidget(d, w, place) ==
  /\ Free /\ d \in dashboards
  /\ widgets' = {IF v.dashboard = d /\ v.widget = w THEN [v EXCEPT !.place = place] ELSE v : v \in widgets}
  /\ UNCHANGED <<dashboards, default, request>>

\* updateWidgetPositions: in one transaction, those that are on this dashboard.
UpdateWidgetPositions(d, to) ==
  /\ Free /\ d \in dashboards
  /\ widgets' = {IF w.dashboard = d /\ w.widget \in DOMAIN to THEN [w EXCEPT !.place = to[w.widget]] ELSE w :
                  w \in widgets}
  /\ UNCHANGED <<dashboards, default, request>>

DeleteWidget(d, w) ==
  /\ Free /\ d \in dashboards /\ widgets' = {v \in widgets : ~(v.dashboard = d /\ v.widget = w)}
  /\ UNCHANGED <<dashboards, default, request>>

-----------------------------------------------------------------------------
Next ==
  \/ CreateDefault \/ UpdateDefault \/ ClearOnly
  \/ \E d \in Dashboard :
       \/ CreateDashboard(d) \/ ClearDefault(d) \/ DropDefault(d) \/ DeleteDashboard(d)
       \/ \E w \in Widget : DeleteWidget(d, w) \/ \E place \in Place : AddWidget(d, w, place) \/ UpdateWidget(d, w, place)
       \/ \E ws \in SUBSET Widget : \E to \in [ws -> Place] : UpdateWidgetPositions(d, to)
Spec == Init /\ [][Next]_vars
=============================================================================
