--------------------------- MODULE Infrastructure ---------------------------
(***************************************************************************)
(* The services below the pipeline, side by side: the rate limiter, the    *)
(* transfer of one download, the result cache and the logger.  They share  *)
(* no state.                                                               *)
(***************************************************************************)
EXTENDS RateLimiter

CONSTANTS FileSizes, ChunkSize, MaxAttempts, SemCap
VARIABLES fileSize, acceptRanges, ranged, run, attempt, got, body, partFile,
          linked, cancelled, chunkGot, finished, goroutine

transfer == <<fileSize, acceptRanges, ranged, run, attempt, got, body, partFile,
              linked, cancelled, chunkGot, finished, goroutine>>

Transfer == INSTANCE DownloadTransfer WITH file <- partFile

CONSTANTS Key, Version, SizeOf(_), MaxSize, MaxEntries, Scenarios, Nil
VARIABLES scenario, alive, entry, order, old, currentSize, file, index, running, stopChan,
          cleaner

cache == <<scenario, alive, entry, order, old, currentSize, file, index, running, stopChan,
           cleaner>>

Cache == INSTANCE CacheService

CONSTANTS MaxLines, MaxBackups, MaxAge, MaxLogged, LastSecond
VARIABLES logged, buffer, batch, caller, current, handle, backup, compressing, cleanups,
          doomed, second, lost, mixed

logger == <<logged, buffer, batch, caller, current, handle, backup, compressing, cleanups,
            doomed, second, lost, mixed>>

Logger == INSTANCE LoggerService WITH
  clock <- second, MaxSize <- MaxLines, MaxEntries <- MaxLogged, MaxClock <- LastSecond

-----------------------------------------------------------------------------
(* Properties *)

(* A transfer that nobody cancelled completes with the source. *)
CompletedIsIntact == Transfer!CompletedIsIntact

(* The size the cache reports is that of its entries, within its limits. *)
SizeHolds == Cache!SizeHolds

(* A cache hit is the content the entry was made for. *)
HitIsRight == Cache!HitIsRight

(* No file is left in the cache directory without an entry. *)
NoOrphanFile == Cache!NoOrphanFile

(* No entry of the log is lost or doubled on its way to the files. *)
LogIsComplete == Logger!LogIsComplete
=============================================================================
