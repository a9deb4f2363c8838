------------------------------ MODULE Process ------------------------------
(***************************************************************************)
(* One process of the plugin, from main (cmd/yandex-csi-driver/main.go)    *)
(* through NewDriver and Run (driver/driver.go) to its end: two servers,   *)
(* the goroutines of the errgroup that Run waits for, and the one that     *)
(* stops the gRPC server.                                                  *)
(*                                                                         *)
(* The net, http and grpc libraries are modelled as Run uses them:         *)
(* GracefulStop closes the listener, waits for the handlers, and only then *)
(* makes Serve return; a Serve after it fails.  A listener that is closed  *)
(* removes its socket file; a process that exits without closing it leaves *)
(* the file.                                                               *)
(*                                                                         *)
(* A definition whose name ends in _With... or _Without... is a faulty     *)
(* variant of the one that follows it, see Sizing.                         *)
(***************************************************************************)
EXTENDS Integers

CONSTANT Calls  \* RPCs, each of which may be in flight

VARIABLES
    phase,      \* "down", "created" after NewDriver, "running" in Run's eg.Wait
    hostKnown,  \* Driver.hostID is not empty
    ready,      \* Driver.ready
    cancelled,  \* the context of main
    socket,     \* the socket file is there
    grpc, http, \* the servers
    group,      \* the goroutines of the errgroup that have not returned
    failed,     \* one of them returned an error
    stopper,    \* the goroutine that stops the gRPC server
    handling    \* the RPCs whose handlers run

processVars == <<phase, hostKnown, ready, cancelled, socket,
                 grpc, http, group, failed, stopper, handling>>

Servers == {"created", "serving", "draining", "stopped", "broken"}

ProcessTypeOK ==
    /\ phase \in {"down", "created", "running"}
    /\ hostKnown \in BOOLEAN /\ ready \in BOOLEAN /\ cancelled \in BOOLEAN
    /\ socket \in BOOLEAN /\ failed \in BOOLEAN
    /\ grpc \in Servers /\ http \in Servers
    /\ group \subseteq {"shutdown", "grpc", "http"}
    /\ stopper \in {"waiting", "stopping", "done"}
    /\ handling \subseteq Calls

ProcessInit ==
    /\ phase = "down" /\ socket = FALSE
    /\ hostKnown = FALSE /\ ready = FALSE /\ cancelled = FALSE /\ failed = FALSE
    /\ grpc = "created" /\ http = "created" /\ group = {} /\ stopper = "waiting"
    /\ handling = {}

\* A new connection is accepted
Listening == phase = "running" /\ socket /\ grpc \in {"created", "serving"}

\* As a client sees it that dials the socket
Probe == Listening /\ ready

-----------------------------------------------------------------------------
(* main, NewDriver, Run *)

(***************************************************************************)
(* The identity of the instance is read once; that it could not be read is *)
(* ignored.                                                                *)
(***************************************************************************)
NewDriver(identified) ==
    /\ phase = "down"
    /\ phase' = "created" /\ hostKnown' = identified
    /\ ready' = FALSE /\ cancelled' = FALSE /\ failed' = FALSE
    /\ grpc' = "created" /\ http' = "created" /\ group' = {} /\ stopper' = "waiting"
    /\ UNCHANGED <<socket, handling>>

\* The process is gone, and with it the handlers
Exit ==
    /\ phase' = "down" /\ handling' = {}
    /\ UNCHANGED <<hostKnown, ready, cancelled, grpc, http, group, failed, stopper>>

Launch ==
    /\ phase' = "running" /\ socket' = TRUE /\ ready' = TRUE
    /\ group' = {"shutdown", "grpc", "http"}
    /\ UNCHANGED <<hostKnown, cancelled, grpc, http, failed, stopper, handling>>

\* a socket file that is there is not removed: net.Listen fails
Run_WithoutRemove ==
    /\ phase = "created"
    /\ IF socket THEN Exit /\ UNCHANGED socket ELSE Launch

Run == phase = "created" /\ Launch

(***************************************************************************)
(* The old socket cannot be removed, or a listener cannot be opened: Run   *)
(* returns the error, main exits; of the two listeners gRPC's is first.    *)
(***************************************************************************)
ListenFails == phase = "created" /\ Exit /\ socket' \in BOOLEAN

\* A signal; all but the first change nothing
Cancel ==
    /\ phase # "down"
    /\ cancelled' = TRUE
    /\ UNCHANGED <<phase, hostKnown, ready, socket, grpc, http, group, failed, stopper, handling>>

\* eg.Wait waits for every goroutine, then main returns or calls log.Fatalln
Return == phase = "running" /\ group = {} /\ Exit /\ UNCHANGED socket

Kill == phase # "down" /\ Exit /\ UNCHANGED socket

-----------------------------------------------------------------------------
(* The goroutines of the errgroup *)

\* One of them ends, with an error or without
Ends(goroutine, withError) ==
    /\ phase = "running" /\ goroutine \in group
    /\ group' = group \ {goroutine}
    /\ failed' = (failed \/ withError)
    /\ UNCHANGED <<phase, hostKnown, ready, cancelled, stopper, handling>>

\* the HTTP server is not shut down
ShutdownHttp_WithoutShutdown ==
    /\ cancelled /\ Ends("shutdown", FALSE)
    /\ UNCHANGED <<socket, grpc, http>>

ShutdownHttp ==
    /\ cancelled /\ Ends("shutdown", FALSE)
    /\ http' = IF http \in {"created", "serving"} THEN "stopped" ELSE http
    /\ UNCHANGED <<socket, grpc>>

Serves(goroutine) ==
    /\ phase = "running" /\ goroutine \in group
    /\ UNCHANGED <<phase, hostKnown, ready, cancelled, socket, group, failed, stopper, handling>>

ServeHttp == http = "created" /\ Serves("http") /\ http' = "serving" /\ UNCHANGED grpc

\* ErrServerClosed, which is no error
HttpReturns == http = "stopped" /\ Ends("http", FALSE) /\ UNCHANGED <<socket, grpc, http>>

HttpBreaks ==
    /\ http = "serving" /\ Ends("http", TRUE)
    /\ http' = "broken"
    /\ UNCHANGED <<socket, grpc>>

ServeGrpc ==
    /\ grpc = "created" /\ stopper # "done" /\ Serves("grpc")
    /\ grpc' = "serving" /\ UNCHANGED http

\* Stopped before Serve: ErrServerStopped
ServeTooLate ==
    /\ grpc = "created" /\ stopper = "done" /\ Ends("grpc", TRUE)
    /\ grpc' = "stopped" /\ socket' = FALSE
    /\ UNCHANGED http

GrpcReturns == grpc = "stopped" /\ Ends("grpc", FALSE) /\ UNCHANGED <<socket, grpc, http>>

\* Accept fails for good: the listener is closed, connections are served on
GrpcBreaks ==
    /\ grpc = "serving" /\ Ends("grpc", TRUE)
    /\ grpc' = "broken" /\ socket' = FALSE
    /\ UNCHANGED http

-----------------------------------------------------------------------------
(* The goroutine that stops the gRPC server *)

\* ready keeps its value
MarkNotReady_WithoutReset ==
    /\ phase = "running" /\ cancelled /\ stopper = "waiting"
    /\ stopper' = "stopping"
    /\ UNCHANGED <<phase, hostKnown, ready, cancelled, socket, grpc, http, group, failed, handling>>

MarkNotReady ==
    /\ phase = "running" /\ cancelled /\ stopper = "waiting"
    /\ ready' = FALSE /\ stopper' = "stopping"
    /\ UNCHANGED <<phase, hostKnown, cancelled, socket, grpc, http, group, failed, handling>>

\* Stop in the place of GracefulStop: Serve returns while handlers run
GracefulStop_WithoutGrace ==
    /\ phase = "running" /\ stopper = "stopping"
    /\ stopper' = "done"
    /\ grpc' = IF grpc = "serving" THEN "stopped" ELSE grpc
    /\ socket' = (socket /\ grpc # "serving")
    /\ UNCHANGED <<phase, hostKnown, ready, cancelled, http, group, failed, handling>>

GracefulStop ==
    /\ phase = "running" /\ stopper = "stopping"
    /\ stopper' = "done"
    /\ grpc' = IF grpc = "serving" THEN "draining" ELSE grpc
    /\ socket' = (socket /\ grpc # "serving")
    /\ UNCHANGED <<phase, hostKnown, ready, cancelled, http, group, failed, handling>>

Drained ==
    /\ phase = "running" /\ grpc = "draining" /\ handling = {}
    /\ grpc' = "stopped"
    /\ UNCHANGED <<phase, hostKnown, ready, cancelled, socket, http, group, failed, stopper, handling>>

-----------------------------------------------------------------------------
(* RPCs *)

\* Connections of a broken server are served on, until GracefulStop
Accept(c) ==
    /\ phase = "running" /\ c \notin handling
    /\ grpc = "serving" \/ (grpc = "broken" /\ stopper # "done")
    /\ handling' = handling \cup {c}
    /\ UNCHANGED <<phase, hostKnown, ready, cancelled, socket, grpc, http, group, failed, stopper>>

Finish(c) ==
    /\ c \in handling
    /\ handling' = handling \ {c}
    /\ UNCHANGED <<phase, hostKnown, ready, cancelled, socket, grpc, http, group, failed, stopper>>

\* What the process does by itself
ProcessStep ==
    \/ Run \/ Return
    \/ ShutdownHttp \/ ServeHttp \/ HttpReturns
    \/ ServeGrpc \/ ServeTooLate \/ GrpcReturns
    \/ MarkNotReady \/ GracefulStop \/ Drained

=============================================================================
