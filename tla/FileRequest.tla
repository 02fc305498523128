---------------------------- MODULE FileRequest ----------------------------
(***************************************************************************)
(* From a request header to the name of a file: the parser, the choice of  *)
(* a handler in Manager::on_read, and FileHandler::handle up to its stat.  *)
(* Each function is a step.                                                *)
(***************************************************************************)
EXTENDS PathUtils, RequestParser

CONSTANTS
    Headers,            \* what may be asked
    HandlerLists,       \* the handlers of a server as their files have
                        \* them: host, base, folder
    Dir                 \* the folder of these files

VARIABLES
    stage, header, handlers, request,
    target,             \* of the redirect that was sent
    file                \* looked up

vars == <<stage, header, handlers, request, target, file>>

(* FileHandlerFactory::createHandler: a relative folder begins at Dir.     *)
Folder(folder) == DelUps(IF IsRel(folder) THEN Join(Dir, folder) ELSE folder)

Created(settings) == [settings EXCEPT !.folder = Folder(@)]

Init ==
    /\ stage = "received"
    /\ header \in Headers
    /\ \E list \in HandlerLists :
          handlers = [i \in DOMAIN list |-> Created(list[i])]
    /\ request = Refused
    /\ target = <<>>
    /\ file = <<>>

Parse ==
    /\ stage = "received"
    /\ request' = ParseHost(header)
    /\ stage' = IF request'.ok THEN "parsed" ELSE "crashed"
    /\ UNCHANGED <<header, handlers, target, file>>

(* FileHandler::shouldHandle.                                              *)
ShouldHandle(handler) ==
    /\ handler.host # <<>> => handler.host = request.host
    /\ handler.base # <<>> => IsSubpath(handler.base, request.path)

(* The first that should.                                                  *)
Chosen == SelectInSeq(handlers, ShouldHandle)

Unhandled ==
    /\ stage = "parsed"
    /\ Chosen = 0
    /\ stage' = "unavailable"
    /\ UNCHANGED <<header, handlers, request, target, file>>

EndsWithSlash(p) == p # <<>> /\ p[Len(p)] = "/"

(* The path a request should have had, and the file it names.              *)
Wanted(p) == DelUps(p) \o IF EndsWithSlash(p) THEN <<"/">> ELSE <<>>

FileOf(handler, p) ==
    Join(handler.folder,
         DelUps(IF handler.base = <<>> THEN p ELSE Relpath(p, handler.base)))

RedirectTo(p) ==
    /\ stage' = "redirected"
    /\ target' = p
    /\ UNCHANGED <<header, handlers, request, file>>

RedirectReduced ==
    /\ stage = "parsed"
    /\ Chosen # 0
    /\ Wanted(request.path) # request.path
    /\ RedirectTo(Wanted(request.path))

(* validateFile matches regular expressions; it may go either way.         *)
Locate ==
    /\ stage = "parsed"
    /\ Chosen # 0
    /\ Wanted(request.path) = request.path
    /\ stage' \in {"illegal", "stat"}
    /\ file' = FileOf(handlers[Chosen], Wanted(request.path))
    /\ UNCHANGED <<header, handlers, request, target>>

(* handle_on_stat: nothing, a directory, a file.                           *)
DoesNotExist ==
    /\ stage = "stat"
    /\ stage' = "not found"
    /\ UNCHANGED <<header, handlers, request, target, file>>

EndsWithBackslash(p) == p # <<>> /\ p[Len(p)] = "\\"     \* slip: the other one
AsFolder(p) == EndsWithSlash(p)

Directory ==
    /\ stage = "stat"
    /\ IF AsFolder(request.path)
         THEN stage' = "read_dir" /\ UNCHANGED <<header, handlers, request, target, file>>
         ELSE RedirectTo(Append(request.path, "/"))

RegularFile ==
    /\ stage = "stat"
    /\ IF EndsWithSlash(request.path)
         THEN RedirectTo(Front(request.path))
         ELSE stage' = "read_file" /\ UNCHANGED <<header, handlers, request, target, file>>

Next ==
    \/ Parse \/ Unhandled \/ RedirectReduced \/ Locate
    \/ DoesNotExist \/ Directory \/ RegularFile

----------------------------------------------------------------------------
(* An ordinary URL is taken apart as a URL is, also where its port is      *)
(* refused (handler.hpp:43-57, manager.cpp:190-298).                       *)
ParsedAsUrl ==
    stage = "parsed" \/ stage = "crashed" =>
        (Ordinary(header) => request = UrlParts(header))

(* Whatever the path and the handler's base, the file looked up is the     *)
(* handler's folder or lies below it, and a script's SCRIPT_NAME leads to  *)
(* it from there (filehandler.cpp:78, 136-157, 571-574).                   *)
ServedFromFolder ==
    file # <<>> =>
        LET folder == handlers[Chosen].folder
        IN  /\ IsPrefix(Append(folder, "/"), file)
            /\ \A i \in DOMAIN Split(file) :
                  Split(file)[i] \notin {<<".">>, <<".", ".">>}
            /\ Join(folder, Relpath(file, folder)) = file

(* A client that follows a redirect is not sent elsewhere by the same      *)
(* test, and what is looked up for it is what was found before             *)
(* (filehandler.cpp:139-149, 184-210).  It holds of the targets that begin *)
(* with the separator: "/a/.." and "/." lose theirs.                       *)
RedirectSettles ==
    stage = "redirected" /\ BeginsWithSeparator(target) =>
        /\ Wanted(target) = target
        /\ file # <<>> => file = FileOf(handlers[Chosen], target)

=============================================================================
