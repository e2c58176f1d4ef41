------------------------------ MODULE ApiErrors ------------------------------
(***************************************************************************)
(* The HTTP status of a request that failed: an error of a call on the     *)
(* node or the database is wrapped or mapped by rpc_error.go and           *)
(* repo_error.go, and types.MapError turns what is left into a status.     *)
(***************************************************************************)
EXTENDS Naturals

OK == 200
BadRequest == 400
NotFound == 404

\* How a call may fail: its deadline, a client that went away, anything else.
Failures == {"timeout", "canceled", "other"}

\* mapRPCError and mapDBError; what they do not know is wrapped as it is.
RPCError(f) ==
    CASE f = "timeout" -> "ErrRPCTimeout"
      [] f = "canceled" -> "ErrRequestCanceled"
      [] OTHER -> f

DBError(f) ==
    CASE f = "timeout" -> "ErrDBTimeout"
      [] f = "canceled" -> "ErrRequestCanceled"
      [] OTHER -> f

Invalid == {"ErrInvalidTxHash", "ErrInvalidBlockNumber", "ErrInvalidAddress",
            "ErrInvalidBlockRange", "ErrBlockRangeTooLarge", "ErrInvalidPagination"}

Missing == {"ErrTxNotFound", "ErrBlockNotFound", "ErrLatestCompletedBlockNotFound"}

Timeouts == {"ErrRPCTimeout", "ErrDBTimeout"}

Conflicting == {"ErrReorgDetected", "ErrChainDiscontinuity", "ErrChainDataConflict"}

\* Mutant: what the service cannot name is taken for a missing object.
MapErrorDefaultMissing(e) ==
    CASE e \in Invalid -> BadRequest
      [] e \in Timeouts -> 504
      [] e \in Conflicting -> 409
      [] OTHER -> NotFound

MapError(e) ==
    CASE e \in Invalid -> BadRequest
      [] e \in Missing -> NotFound
      [] e \in Timeouts -> 504
      [] e = "ErrRequestCanceled" -> 408
      [] e \in Conflicting -> 409
      [] OTHER -> 500
=============================================================================
