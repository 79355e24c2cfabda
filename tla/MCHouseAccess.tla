--------------------------- MODULE MCHouseAccess ---------------------------
EXTENDS HouseAccess, TLC

CONSTANTS control, request, relay, nodes

\* A run and the start of the next, a request of each kind while they go on, a
\* spectrum of the first run, and the nodes' end after a cancellation.
MCScript ==
    control :> <<PrepareFiles, RegisterWriter, StartFiles, FinishFiles,
                 StartFiles>> @@
    request :> HandleGetUseMonarch \o HandleStartRun \o HandleGetFilename
               \o HandleGetDescription @@
    relay :> BroadcastSpectrum @@
    nodes :> <<UnregisterWriter>>

MCStartsAfter ==
    control :> "nothing" @@ request :> "nothing" @@
    relay :> "StartFiles" @@ nodes :> "StartFiles"

=============================================================================
